---- MODULE Spec2Model ----
(***************************************************************************)
(* Transaction analytics and tax computation of the financial-assistant    *)
(* backend: the flat old/new regime comparison (book1.py, book.py), the    *)
(* head-wise tax calculator (book3.py) and the transaction aggregator      *)
(* (new.py, book3.py).                                                     *)
(*                                                                         *)
(* Money.  Incomes and transaction amounts are whole rupees.  Python       *)
(* computes with binary floats; the model computes the same expressions    *)
(* exactly, in fixed-point units chosen so that no product is truncated:   *)
(*   - flat regime taxes are in thousandths of a rupee (Times),            *)
(*   - head-wise incomes after deduction are in tenths of a rupee (Deci),  *)
(*   - head-wise taxes, rebate and cess are in 1/5000 rupee (TaxU).        *)
(***************************************************************************)
EXTENDS Integers, Sequences, FiniteSets, TLC

VARIABLES
    reports,    \* the files reports/ITR_summary_<user_id>.json: path -> content
    response,   \* the tax computation that returned last: its arguments and result
    transactions,   \* the batch the function was called with
    pc,             \* the function running, where it is, the count of its loop
    locals,         \* the locals of the function that is running
    result          \* the dict the function returned

vars == <<reports, response, transactions, pc, locals, result>>

Min(a, b) == IF a <= b THEN a ELSE b
Max(a, b) == IF a >= b THEN a ELSE b

\* dict.get(key, default)
Get(d, key, default) == IF key \in DOMAIN d THEN d[key] ELSE default

Users == {"u1", "u2"}

NoFile == [exists |-> FALSE]
NoCall == [op |-> "none"]

(***************************************************************************)
(* Mode A: calculate_full_year_tax_optimized (book1.py)                    *)
(***************************************************************************)

\* amount * rate, the rate given in percent; the result in thousandths of a rupee
Times(amount, ratePct) == amount * ratePct * 10

\* round(x, 2) on thousandths of a rupee: to the nearest hundredth, ties to even
Round2(m) ==
    LET q == m \div 10
        r == m % 10
    IN  IF r < 5 THEN q * 10
        ELSE IF r > 5 THEN (q + 1) * 10
        ELSE IF q % 2 = 0 THEN q * 10 ELSE (q + 1) * 10

standard_deduction == 50000

\* mutant: each bracket taxed alone, the tax of the brackets below it forgotten
calculate_old_regime_tax_marginal(taxable) ==
    IF taxable <= 250000 THEN 0
    ELSE IF taxable <= 500000 THEN Times(taxable - 250000, 5)
    ELSE IF taxable <= 1000000 THEN Times(taxable - 500000, 20)
    ELSE Times(taxable - 1000000, 30)

calculate_old_regime_tax(taxable) ==
    IF taxable <= 250000 THEN 0
    ELSE IF taxable <= 500000 THEN Times(taxable - 250000, 5)
    ELSE IF taxable <= 1000000 THEN Times(250000, 5) + Times(taxable - 500000, 20)
    ELSE Times(250000, 5) + Times(500000, 20) + Times(taxable - 1000000, 30)

flat_slabs ==
    << [slab_limit |-> 300000, rate |-> 0],  [slab_limit |-> 300000, rate |-> 5],
       [slab_limit |-> 300000, rate |-> 10], [slab_limit |-> 300000, rate |-> 15],
       [slab_limit |-> 300000, rate |-> 20] >>

\* the for loop of calculate_new_regime_tax; returns <<tax, remaining>>
RECURSIVE new_regime_loop(_, _, _)
new_regime_loop(i, tax, remaining) ==
    IF i > Len(flat_slabs) \/ remaining <= 0 THEN <<tax, remaining>>
    ELSE LET taxable_in_slab == Min(remaining, flat_slabs[i].slab_limit)
         IN  new_regime_loop(i + 1,
                             tax + Times(taxable_in_slab, flat_slabs[i].rate),
                             remaining - taxable_in_slab)

calculate_new_regime_tax(taxable) ==
    LET r == new_regime_loop(1, 0, taxable)
    IN  IF r[2] > 0 THEN r[1] + Times(r[2], 30) ELSE r[1]

RECURSIVE SumAmounts(_)
SumAmounts(entries) ==
    IF entries = <<>> THEN 0
    ELSE Head(entries).amount + SumAmounts(Tail(entries))

\* mutant: a tie selects the new regime
select_regime_strict(tax_old, tax_new) == IF tax_old < tax_new THEN "Old" ELSE "New"

\* "Old" if tax_old <= tax_new else "New"
select_regime(tax_old, tax_new) == IF tax_old <= tax_new THEN "Old" ELSE "New"

\* mutant: the comparison of the rebate inverted
old_regime_rebate_inverted(taxable_income, tax_old) ==
    IF taxable_income >= 700000 THEN 0 ELSE tax_old

\* mutant: the rebate given up to a taxable income of 500,000 only
old_regime_rebate_500000(taxable_income, tax_old) ==
    IF taxable_income <= 500000 THEN 0 ELSE tax_old

\* the 87A approximation of the old regime: if taxable_income <= 700000: tax_old = 0
old_regime_rebate(taxable_income, tax_old) ==
    IF taxable_income <= 700000 THEN 0 ELSE tax_old

\* the summary dict built by calculate_full_year_tax_optimized
full_year_summary(analysis, user_id) ==
    LET income == Get(analysis, "total_income", 0)
        deductions == SumAmounts(Get(analysis, "investment_entries", <<>>))
        tds_paid == Get(analysis, "tds_paid", 0)
        taxable_income == Max(0, income - deductions - standard_deduction)
        tax_old == old_regime_rebate(taxable_income,
                                     calculate_old_regime_tax(taxable_income))
        tax_new == calculate_new_regime_tax(taxable_income)
        selected_regime == select_regime(tax_old, tax_new)
        estimated_tax == Min(tax_old, tax_new)
    IN  [ user_id |-> user_id,
          financial_year |-> "2024-25",
          gross_income |-> income,
          deductions |-> deductions,
          standard_deduction |-> standard_deduction,
          taxable_income |-> taxable_income,
          estimated_tax_old_regime |-> Round2(tax_old),
          estimated_tax_new_regime |-> Round2(tax_new),
          selected_regime |-> selected_regime,
          final_estimated_tax |-> Round2(estimated_tax),
          tds_paid |-> tds_paid,
          salary_entries |-> Get(analysis, "salary_sources", <<>>),
          investment_entries |-> Get(analysis, "investment_entries", <<>>) ]

\* f"reports/ITR_summary_{user_id}.json"
file_path(user_id) == <<"reports/ITR_summary_", user_id, ".json">>

FilePaths == {file_path(u) : u \in Users}

\* mutant: an existing report is kept, as if opened with mode "x"
write_report_once(files, path, summary) ==
    IF files[path].exists THEN files
    ELSE [files EXCEPT ![path] = [exists |-> TRUE, content |-> summary]]

\* open(file_path, "w"); json.dump(summary, f): the file holds the summary alone
write_report(files, path, summary) ==
    [files EXCEPT ![path] = [exists |-> TRUE, content |-> summary]]

\* the old regime and new regime arithmetic of calculate_full_year_tax (book.py)
book_tax_old(taxable_income) ==
    LET tax_old ==
            IF taxable_income <= 250000 THEN 0
            ELSE IF taxable_income <= 500000 THEN Times(taxable_income - 250000, 5)
            ELSE IF taxable_income <= 1000000
                 THEN Times(250000, 5) + Times(taxable_income - 500000, 20)
            ELSE Times(250000, 5) + Times(500000, 20)
                 + Times(taxable_income - 1000000, 30)
    IN  IF taxable_income <= 700000 THEN 0 ELSE tax_old

book_slabs ==
    << [slab |-> 300000, unbounded |-> FALSE, rate |-> 0],
       [slab |-> 300000, unbounded |-> FALSE, rate |-> 5],
       [slab |-> 300000, unbounded |-> FALSE, rate |-> 10],
       [slab |-> 300000, unbounded |-> FALSE, rate |-> 15],
       [slab |-> 300000, unbounded |-> FALSE, rate |-> 20],
       [slab |-> 0,      unbounded |-> TRUE,  rate |-> 30] >>

RECURSIVE book_new_loop(_, _, _)
book_new_loop(i, tax_new, temp_income) ==
    IF i > Len(book_slabs) \/ ~(temp_income > 0) THEN tax_new
    ELSE LET slab_amt == IF book_slabs[i].unbounded THEN temp_income
                         ELSE Min(temp_income, book_slabs[i].slab)
         IN  book_new_loop(i + 1, tax_new + Times(slab_amt, book_slabs[i].rate),
                           temp_income - slab_amt)

book_tax_new(taxable_income) == book_new_loop(1, 0, taxable_income)

(***************************************************************************)
(* Mode B: the head-wise calculator (book3.py)                             *)
(***************************************************************************)

\* rupees in tenths of a rupee, the unit of the incomes after deduction
Deci(rupees) == rupees * 10
\* rupees in 1/5000 rupee, the unit of the head-wise taxes
TaxU(rupees) == rupees * 5000

STANDARD_DEDUCTION == 75000
TAX_REBATE_LIMIT == 1200000
TAX_REBATE_AMOUNT == 60000

\* the key order of INCOME_HEAD_KEYWORDS, DEDUCTIONS and head_totals
HEADS == <<"salary", "house_property", "business_profession", "capital_gains",
           "other_sources">>

HeadSet == {HEADS[i] : i \in 1..Len(HEADS)}

\* (limit, rate): the rate in percent, float('inf') as unbounded
NEW_REGIME_SLABS ==
    << [limit |-> 400000,  unbounded |-> FALSE, rate |-> 0],
       [limit |-> 800000,  unbounded |-> FALSE, rate |-> 5],
       [limit |-> 1200000, unbounded |-> FALSE, rate |-> 10],
       [limit |-> 1600000, unbounded |-> FALSE, rate |-> 15],
       [limit |-> 2000000, unbounded |-> FALSE, rate |-> 20],
       [limit |-> 2400000, unbounded |-> FALSE, rate |-> 25],
       [limit |-> 0,       unbounded |-> TRUE,  rate |-> 30] >>

\* mutant: the standard deduction not capped by the gross salary
head_deduction_uncapped(head, gross_income) ==
    IF head = "salary" THEN Deci(STANDARD_DEDUCTION)
    ELSE IF head = "house_property" THEN gross_income * 3
    ELSE 0

\* the deduction of one head with gross_income > 0, in tenths of a rupee
head_deduction(head, gross_income) ==
    IF head = "salary" THEN Deci(Min(STANDARD_DEDUCTION, gross_income))
    ELSE IF head = "house_property" THEN gross_income * 3
    ELSE 0

\* the taxable income of one head with gross_income > 0, in tenths of a rupee
head_taxable(head, gross_income) ==
    IF head = "salary" \/ head = "house_property"
    THEN Max(0, Deci(gross_income) - head_deduction(head, gross_income))
    ELSE IF head = "capital_gains" THEN 0
    ELSE Deci(gross_income)

\* what a head adds to total_taxable_income: if head != "capital_gains"
head_contribution(head, taxable_income) ==
    IF head # "capital_gains" THEN taxable_income ELSE 0

\* the loop of calculate_head_wise_taxable_income over income_heads.items()
RECURSIVE head_wise_total(_, _)
head_wise_total(income_heads, i) ==
    IF i > Len(HEADS) THEN 0
    ELSE LET head == HEADS[i]
         IN  IF head \notin DOMAIN income_heads \/ income_heads[head] <= 0
             THEN head_wise_total(income_heads, i + 1)
             ELSE head_contribution(head, head_taxable(head, income_heads[head]))
                  + head_wise_total(income_heads, i + 1)

calculate_head_wise_taxable_income(income_heads) ==
    [ head_wise_details |->
          [ head \in {h \in DOMAIN income_heads : income_heads[h] > 0} |->
              [ gross_income |-> income_heads[head],
                deduction_amount |-> head_deduction(head, income_heads[head]),
                taxable_income |-> head_taxable(head, income_heads[head]) ] ],
      total_taxable_income |-> head_wise_total(income_heads, 1) ]

\* mutant: the whole width of the band, whatever the income
slab_width_band(income, prev_limit, slab) ==
    IF slab.unbounded THEN income - prev_limit
    ELSE Deci(slab.limit) - prev_limit

\* min(income - prev_limit, limit - prev_limit), income and prev_limit in tenths
slab_width(income, prev_limit, slab) ==
    IF slab.unbounded THEN income - prev_limit
    ELSE Min(income - prev_limit, Deci(slab.limit) - prev_limit)

\* the loop of calculate_tax_slab; income in tenths of a rupee, tax in 1/5000
RECURSIVE tax_slab_loop(_, _, _, _, _, _)
tax_slab_loop(income, slabs, i, prev_limit, tax, slab_breakdown) ==
    IF i > Len(slabs) \/ income <= prev_limit
    THEN [tax |-> tax, slab_breakdown |-> slab_breakdown]
    ELSE LET slab == slabs[i]
             taxable_in_slab == slab_width(income, prev_limit, slab)
             tax_in_slab == taxable_in_slab * slab.rate * 5
             rows == IF taxable_in_slab > 0
                     THEN Append(slab_breakdown,
                                 [ from |-> prev_limit,
                                   upto |-> IF slab.unbounded THEN income
                                            ELSE Min(Deci(slab.limit), income),
                                   rate |-> slab.rate,
                                   taxable_amount |-> taxable_in_slab,
                                   tax_amount |-> tax_in_slab ])
                     ELSE slab_breakdown
         IN  IF slab.unbounded \/ income <= Deci(slab.limit)
             THEN [tax |-> tax + tax_in_slab, slab_breakdown |-> rows]
             ELSE tax_slab_loop(income, slabs, i + 1, Deci(slab.limit),
                                tax + tax_in_slab, rows)

calculate_tax_slab(income, slabs) == tax_slab_loop(income, slabs, 1, 0, 0, <<>>)

\* mutant: no rebate at the limit itself
rebate_87A_strict(total_taxable_income, tax_liability) ==
    IF total_taxable_income < Deci(TAX_REBATE_LIMIT)
    THEN Min(TaxU(TAX_REBATE_AMOUNT), tax_liability)
    ELSE 0

\* mutant: the full rebate amount even when the tax is smaller
rebate_87A_flat(total_taxable_income, tax_liability) ==
    IF total_taxable_income <= Deci(TAX_REBATE_LIMIT)
    THEN TaxU(TAX_REBATE_AMOUNT)
    ELSE 0

\* tax_rebate: 0 unless total_taxable_income <= TAX_REBATE_LIMIT
rebate_87A(total_taxable_income, tax_liability) ==
    IF total_taxable_income <= Deci(TAX_REBATE_LIMIT)
    THEN Min(TaxU(TAX_REBATE_AMOUNT), tax_liability)
    ELSE 0

\* cess = tax_after_rebate * 0.04, exact: every tax is a multiple of 25 units
health_education_cess(tax_after_rebate) == tax_after_rebate \div 25

RECURSIVE SumHeads(_, _)
SumHeads(income_heads, i) ==
    IF i > Len(HEADS) THEN 0
    ELSE Get(income_heads, HEADS[i], 0) + SumHeads(income_heads, i + 1)

calculate_tax_liability_enhanced(income_heads) ==
    LET head_wise_calc == calculate_head_wise_taxable_income(income_heads)
        total_taxable_income == head_wise_calc.total_taxable_income
        slab == calculate_tax_slab(total_taxable_income, NEW_REGIME_SLABS)
        tax_liability == slab.tax
        tax_rebate == rebate_87A(total_taxable_income, tax_liability)
        tax_after_rebate == tax_liability - tax_rebate
        cess == health_education_cess(tax_after_rebate)
        total_tax == tax_after_rebate + cess
    IN  [ head_wise_calculation |-> head_wise_calc.head_wise_details,
          total_gross_income |-> SumHeads(income_heads, 1),
          total_taxable_income |-> total_taxable_income,
          tax_before_rebate |-> tax_liability,
          tax_rebate |-> tax_rebate,
          tax_after_rebate |-> tax_after_rebate,
          health_education_cess |-> cess,
          total_tax_liability |-> total_tax,
          slab_breakdown |-> slab.slab_breakdown ]


(***************************************************************************)
(* Text: a str is a sequence of one-character strings                      *)
(***************************************************************************)

LOWER == <<"a", "b", "c", "d", "e", "f", "g", "h", "i", "j", "k", "l", "m",
           "n", "o", "p", "q", "r", "s", "t", "u", "v", "w", "x", "y", "z">>
UPPER == <<"A", "B", "C", "D", "E", "F", "G", "H", "I", "J", "K", "L", "M",
           "N", "O", "P", "Q", "R", "S", "T", "U", "V", "W", "X", "Y", "Z">>

IsLower(c) == \E k \in 1..Len(LOWER) : LOWER[k] = c
IsUpper(c) == \E k \in 1..Len(UPPER) : UPPER[k] = c
IsLetter(c) == IsLower(c) \/ IsUpper(c)
IsSpace(c) == c \in {" ", "\t", "\n", "\r"}

LowerChar(c) == IF IsUpper(c) THEN LOWER[CHOOSE k \in 1..Len(UPPER) : UPPER[k] = c] ELSE c
UpperChar(c) == IF IsLower(c) THEN UPPER[CHOOSE k \in 1..Len(LOWER) : LOWER[k] = c] ELSE c

\* str.lower()
Lower(s) == [k \in 1..Len(s) |-> LowerChar(s[k])]

\* keyword in s
Contains(s, keyword) ==
    \E k \in 1..(Len(s) - Len(keyword) + 1) : SubSeq(s, k, k + Len(keyword) - 1) = keyword

\* any(keyword in s for keyword in keywords)
ContainsAny(s, keywords) == \E keyword \in keywords : Contains(s, keyword)

\* str.strip()
Strip(s) ==
    LET solid == {k \in 1..Len(s) : ~IsSpace(s[k])}
    IN  IF solid = {} THEN <<>>
        ELSE SubSeq(s, CHOOSE k \in solid : \A j \in solid : k <= j,
                       CHOOSE k \in solid : \A j \in solid : k >= j)

\* str.title(): a letter after a non-letter in upper case, the others in lower case
Title(s) ==
    [k \in 1..Len(s) |->
        IF k = 1 \/ ~IsLetter(s[k - 1]) THEN UpperChar(s[k]) ELSE LowerChar(s[k])]

(***************************************************************************)
(* The aggregator: analyze_transactions_comprehensive (new.py)             *)
(***************************************************************************)

FOOD_KEYWORDS ==
    { <<"z", "o", "m", "a", "t", "o">>, <<"s", "w", "i", "g", "g", "y">>
      , <<"d", "o", "m", "i", "n", "o">>, <<"p", "i", "z", "z", "a">>
      , <<"f", "o", "o", "d">>, <<"r", "e", "s", "t", "a", "u", "r", "a", "n", "t">>
      , <<"c", "a", "f", "e">>, <<"m", "e", "a", "l">>, <<"d", "i", "n", "i", "n", "g">> }

INVESTMENT_KEYWORDS ==
    { <<"l", "i", "c">>, <<"e", "l", "s", "s">>, <<"n", "p", "s">>, <<"p", "p", "f">>
      , <<"i", "n", "s", "u", "r", "a", "n", "c", "e">>
      , <<"m", "u", "t", "u", "a", "l", " ", "f", "u", "n", "d">>, <<"s", "i", "p">>
      , <<"f", "d">>
      , <<"f", "i", "x", "e", "d", " ", "d", "e", "p", "o", "s", "i", "t">> }

AVOIDABLE_CATEGORIES ==
    { <<"e", "n", "t", "e", "r", "t", "a", "i", "n", "m", "e", "n", "t">>
      , <<"s", "h", "o", "p", "p", "i", "n", "g">>, <<"l", "u", "x", "u", "r", "y">>
      , <<"g", "a", "m", "i", "n", "g">>
      , <<"s", "u", "b", "s", "c", "r", "i", "p", "t", "i", "o", "n">> }

PERSON_KEYWORDS ==
    { <<"t", "o">>, <<"s", "e", "n", "t", " ", "t", "o">>
      , <<"p", "a", "i", "d", " ", "t", "o">>
      , <<"t", "r", "a", "n", "s", "f", "e", "r", " ", "t", "o">>
      , <<"p", "a", "y", "m", "e", "n", "t", " ", "t", "o">> }

\* the alternatives of the person pattern, in the order of the pattern
PERSON_PHRASES ==
    << <<"t", "o">>,
       <<"s", "e", "n", "t", " ", "t", "o">>,
       <<"p", "a", "i", "d", " ", "t", "o">>,
       <<"t", "r", "a", "n", "s", "f", "e", "r", " ", "t", "o">>,
       <<"p", "a", "y", "m", "e", "n", "t", " ", "t", "o">> >>

\* the str values of the model
CatOther ==
    << "O", "t", "h", "e", "r" >>
CatFood ==
    << "f", "o", "o", "d" >>
CatInvestment ==
    << "i", "n", "v", "e", "s", "t", "m", "e", "n", "t" >>
DescRamesh ==
    << "p", "a", "i", "d", " ", "t", "o", " ", "R", "a", "m", "e", "s", "h", " ", "f",
       "o", "r", " ", "d", "i", "n", "n", "e", "r" >>
DescSalary ==
    << "S", "a", "l", "a", "r", "y", " ", "-", " ", "M", "a", "r", "c", "h", " ", "2",
       "0", "2", "5" >>
DescZomato ==
    << "Z", "o", "m", "a", "t", "o", " ", "o", "r", "d", "e", "r" >>
DescSip ==
    << "S", "I", "P", " ", "m", "u", "t", "u", "a", "l", " ", "f", "u", "n", "d" >>
DescLoan ==
    << "l", "o", "a", "n", " ", "e", "m", "i" >>
DescMovie ==
    << "m", "o", "v", "i", "e", " ", "n", "i", "g", "h", "t" >>
DescCash ==
    << "c", "a", "s", "h" >>
DescRent ==
    << "r", "e", "n", "t", " ", "r", "e", "c", "e", "i", "v", "e", "d" >>
DescFd ==
    << "F", "D", " ", "i", "n", "t", "e", "r", "e", "s", "t", " ", "T", "D", "S" >>
DescPizza ==
    << "p", "i", "z", "z", "a" >>
DescGadget ==
    << "n", "e", "w", " ", "h", "e", "a", "d", "p", "h", "o", "n", "e", "s" >>
CatShopping ==
    << "s", "h", "o", "p", "p", "i", "n", "g" >>
CatLuxury ==
    << "l", "u", "x", "u", "r", "y" >>
CatLuxuryUpper ==
    << "L", "u", "x", "u", "r", "y" >>
CatSalary ==
    << "s", "a", "l", "a", "r", "y" >>
CatLoan ==
    << "l", "o", "a", "n" >>

\* None where a str is expected
NONE == <<"None">>

\* a transaction row; amounts are whole rupees
Txn(amount, description, type, category, created_at) ==
    [ amount |-> [numeric |-> TRUE, value |-> amount], description |-> description,
      type |-> type, category |-> category, created_at |-> created_at ]

\* created_at: an ISO-8601 timestamp, or a text that is none
IsoDate(y, m, d) == [iso |-> TRUE, year |-> y, month |-> m, day |-> d]
BadDate == [iso |-> FALSE, text |-> "yesterday"]

\* the row without one of its fields
Without(txn, key) == [k \in DOMAIN txn \ {key} |-> txn[k]]

TxnRamesh == Txn(800, DescRamesh, "sent", CatOther, IsoDate(2025, 3, 10))
TxnSalary == Txn(5000, DescSalary, "received", CatSalary, IsoDate(2025, 3, 5))
TxnZomato == Txn(1500, DescZomato, "expense", CatShopping, IsoDate(2025, 3, 12))
TxnSip == Txn(2000, DescSip, "sent", CatLuxury, IsoDate(2025, 4, 1))
TxnLoan == Txn(24925, DescLoan, "loan_payment", CatLoan, IsoDate(2025, 4, 5))
TxnMovie == Txn(1500, DescMovie, "expense", CatLuxuryUpper, IsoDate(2024, 12, 31))
TxnCash == Txn(900, DescCash, "income", CatLuxury, BadDate)
TxnRent == Txn(300, DescRent, "received", NONE, IsoDate(2025, 3, 1))
TxnFd == Without(Txn(400, DescFd, "received", CatOther, BadDate), "created_at")
TxnGadget == Txn(1000, DescGadget, "expense", CatShopping, IsoDate(2025, 5, 1))
TxnBlankCategory == Txn(600, DescCash, "expense", <<>>, IsoDate(2025, 5, 2))
TxnNoCategory == Without(Txn(1000, DescMovie, "expense", CatOther, BadDate), "category")
TxnBadAmount ==
    [Txn(0, DescPizza, "received", CatOther, IsoDate(2025, 3, 2)) EXCEPT
        !.amount = [numeric |-> FALSE]]
TxnNoDescription ==
    Without(Txn(700, <<>>, "received", CatOther, IsoDate(2025, 3, 3)), "description")

TxnPool ==
    { TxnRamesh, TxnSalary, TxnZomato, TxnSip, TxnLoan, TxnMovie, TxnCash, TxnRent,
      TxnFd, TxnGadget, TxnBlankCategory, TxnNoCategory, TxnBadAmount, TxnNoDescription }

MaxBatch == 2

\* the batches handed to the aggregator: result.data of get_user_transactions
Batches == UNION {[1..n -> TxnPool] : n \in 0..MaxBatch}

\* mutant: the entry assigned, not added to
add_overwrite(d, key, amount) ==
    [k \in DOMAIN d \cup {key} |-> IF k = key THEN amount ELSE d[k]]

\* d[key] += amount on a defaultdict(float)
add(d, key, amount) ==
    [k \in DOMAIN d \cup {key} |->
        (IF k \in DOMAIN d THEN d[k] ELSE 0) + (IF k = key THEN amount ELSE 0)]

\* float(txn["amount"]) succeeds
AmountOK(txn) == "amount" \in DOMAIN txn /\ txn.amount.numeric

\* the statements of the try body that read the record: lines 319-321 raise
\* on a missing or non-numeric amount and on a missing description
Readable(txn) == AmountOK(txn) /\ "description" \in DOMAIN txn

\* Enhanced categorization
resolve_category(desc_lower, category) ==
    IF ContainsAny(desc_lower, FOOD_KEYWORDS) THEN CatFood
    ELSE IF ContainsAny(desc_lower, INVESTMENT_KEYWORDS) THEN CatInvestment
    ELSE category

\* mutant: the total of the category assigned, not added to
count_category_assign(category_totals, category, amount) ==
    [k \in DOMAIN category_totals \cup {category} |->
        IF k = category THEN amount ELSE category_totals[k]]

\* category_totals[category] += amount
count_category(category_totals, category, amount) ==
    add(category_totals, category, amount)

MONTH_NAMES ==
    << "January", "February", "March", "April", "May", "June", "July", "August",
       "September", "October", "November", "December" >>

\* datetime.fromisoformat(created.replace("Z", "+00:00")) succeeds
DateParses(txn) == "created_at" \in DOMAIN txn /\ txn.created_at.iso

\* dt.strftime("%B %Y") and dt.strftime("%Y")
month_key(created_at) == <<MONTH_NAMES[created_at.month], created_at.year>>
year_key(created_at) == created_at.year

\* txn["created_at"][:10]
date10(created_at) ==
    IF created_at.iso THEN <<created_at.year, created_at.month, created_at.day>>
    ELSE <<created_at.text>>

\* the characters [a-zA-Z\s] of the person pattern
IsNameChar(c) == IsLetter(c) \/ IsSpace(c)

\* the last index of the run of characters satisfying the class from index g on
RECURSIVE RunEnd(_, _, _)
RunEnd(d, g, space_only) ==
    IF g + 1 <= Len(d) /\ (IF space_only THEN IsSpace(d[g + 1]) ELSE IsNameChar(d[g + 1]))
    THEN RunEnd(d, g + 1, space_only)
    ELSE g

\* d[from - 1 : to], which ends where d does
Slice(d, from, to) == SubSeq(d, from, Min(to, Len(d)))

\* the phrase of the pattern that starts at index s, 0 if none does
PhraseAt(d, s) ==
    LET hits == {i \in 1..Len(PERSON_PHRASES) :
                    Slice(d, s, s + Len(PERSON_PHRASES[i]) - 1) = PERSON_PHRASES[i]}
    IN  IF hits = {} THEN 0 ELSE CHOOSE i \in hits : \A j \in hits : i <= j

\* the match of (?:to|sent to|paid to|transfer to|payment to)\s+([a-zA-Z\s]+)
\* that starts at index s: \s+ takes the whole run of spaces and gives one back
\* only if no letter follows; group(1) is the longest run of [a-zA-Z\s] after it
MatchAt(d, s) ==
    LET i == PhraseAt(d, s)
        e == s + Len(PERSON_PHRASES[i])
        last_space == RunEnd(d, e, TRUE)
    IN  IF i = 0 THEN [matched |-> FALSE]
        ELSE IF e > Len(d) \/ ~IsSpace(d[e]) THEN [matched |-> FALSE]
        ELSE IF last_space + 1 <= Len(d) /\ IsLetter(d[last_space + 1])
        THEN [matched |-> TRUE,
              group |-> SubSeq(d, last_space + 1, RunEnd(d, last_space + 1, FALSE))]
        ELSE IF last_space > e
        THEN [matched |-> TRUE, group |-> SubSeq(d, last_space, last_space)]
        ELSE [matched |-> FALSE]

\* re.search: the match at the leftmost index that has one
person_match(d) ==
    LET starts == {s \in 1..Len(d) : MatchAt(d, s).matched}
    IN  IF starts = {} THEN [matched |-> FALSE]
        ELSE MatchAt(d, CHOOSE s \in starts : \A r \in starts : s <= r)

\* person_match.group(1).strip().title()
person_name(d) == Title(Strip(person_match(d).group))

\* mutant: a loan payment summed into the expenses
income_expense_loan(acc, txn_type, amount) ==
    IF txn_type = "received" THEN [acc EXCEPT !.total_income = @ + amount]
    ELSE IF txn_type \in {"sent", "expense", "loan_payment"}
    THEN [acc EXCEPT !.total_expense = @ + amount]
    ELSE acc

\* if txn_type == "received": ... elif txn_type in ["sent", "expense"]: ...
income_expense(acc, txn_type, amount) ==
    IF txn_type = "received" THEN [acc EXCEPT !.total_income = @ + amount]
    ELSE IF txn_type \in {"sent", "expense"} THEN [acc EXCEPT !.total_expense = @ + amount]
    ELSE acc

\* mutant: the threshold met by an amount of 1000 itself
is_avoidable_from_1000(category, amount) ==
    Lower(category) \in AVOIDABLE_CATEGORIES /\ amount >= 1000

\* category.lower() in AVOIDABLE_CATEGORIES and amount > 1000
is_avoidable(category, amount) ==
    Lower(category) \in AVOIDABLE_CATEGORIES /\ amount > 1000

\* the locals of analyze_transactions_comprehensive before the loop
comprehensive_locals ==
    [ category_totals |-> <<>>, monthly_totals |-> <<>>, yearly_totals |-> <<>>,
      person_totals |-> <<>>, total_income |-> 0, total_expense |-> 0,
      reminders |-> <<>>, investment_entries |-> <<>>, avoidable_expenses |-> <<>> ]

\* one iteration of the loop of analyze_transactions_comprehensive: the try body
\* up to the statement that raises, if one does; the except clause continues
process_txn(acc, txn) ==
    IF ~Readable(txn) THEN acc
    ELSE
    LET amount == txn.amount.value
        desc == txn.description
        desc_lower == Lower(desc)
        txn_type == Get(txn, "type", "")
        category == resolve_category(desc_lower, Get(txn, "category", CatOther))
        has_created_at == "created_at" \in DOMAIN txn
        is_investment == ContainsAny(desc_lower, INVESTMENT_KEYWORDS)
        a1 == [acc EXCEPT !.category_totals = count_category(@, category, amount)]
        a2 == IF DateParses(txn)
              THEN [a1 EXCEPT
                      !.monthly_totals = add(@, month_key(txn.created_at), amount),
                      !.yearly_totals = add(@, year_key(txn.created_at), amount)]
              ELSE a1
        a3 == IF ContainsAny(desc_lower, PERSON_KEYWORDS)
                 /\ person_match(desc_lower).matched
              THEN [a2 EXCEPT !.person_totals = add(@, person_name(desc_lower), amount)]
              ELSE a2
        a4 == income_expense(a3, txn_type, amount)
        a5 == IF txn_type = "loan_payment"
              THEN [a4 EXCEPT !.reminders =
                        Append(@, [due |-> date10(txn.created_at), amount |-> amount])]
              ELSE a4
        a6 == IF is_investment
              THEN [a5 EXCEPT !.investment_entries =
                        Append(@, [date |-> txn.created_at, amount |-> amount,
                                   description |-> desc])]
              ELSE a5
        a7 == IF is_avoidable(category, amount)
              THEN [a6 EXCEPT !.avoidable_expenses = Append(@, txn)]
              ELSE a6
    IN  IF txn_type = "loan_payment" /\ ~has_created_at THEN a4
        ELSE IF is_investment /\ ~has_created_at THEN a5
        ELSE IF category = NONE THEN a6
        ELSE a7

\* the dict returned by analyze_transactions_comprehensive
comprehensive_result(acc) ==
    [ category_totals |-> acc.category_totals,
      monthly_totals |-> acc.monthly_totals,
      yearly_totals |-> acc.yearly_totals,
      person_totals |-> acc.person_totals,
      total_income |-> acc.total_income,
      total_expense |-> acc.total_expense,
      reminders |-> acc.reminders,
      investment_entries |-> acc.investment_entries,
      avoidable_expenses |-> acc.avoidable_expenses,
      net_savings |-> acc.total_income - acc.total_expense ]

(***************************************************************************)
(* The income heads: analyze_income_by_heads (book3.py)                    *)
(***************************************************************************)

\* head -> keywords and patterns; a pattern a.*b is the sequence of its literal parts
INCOME_HEAD_KEYWORDS ==
    [ salary |->
        [ keywords |->
            { <<"s", "a", "l", "a", "r", "y">>, <<"w", "a", "g", "e", "s">>
              , <<"a", "l", "l", "o", "w", "a", "n", "c", "e">>, <<"h", "r", "a">>
              , <<"d", "a">>, <<"b", "o", "n", "u", "s">>
              , <<"i", "n", "c", "e", "n", "t", "i", "v", "e">>
              , <<"c", "o", "m", "m", "i", "s", "s", "i", "o", "n">>
              , <<"g", "r", "a", "t", "u", "i", "t", "y">>
              , <<"p", "e", "n", "s", "i", "o", "n">> },
          patterns |->
            << [kind |-> "salary_month_year", parts |-> <<>>],
               [kind |-> "parts", parts |-> << <<"p", "a", "y">>, <<"s", "l", "i", "p">> >>],
               [kind |-> "parts", parts |-> << <<"m", "o", "n", "t", "h", "l", "y">>, <<"s", "a", "l", "a", "r", "y">> >>] >> ],
      house_property |->
        [ keywords |->
            { <<"r", "e", "n", "t">>, <<"r", "e", "n", "t", "a", "l">>
              , <<"p", "r", "o", "p", "e", "r", "t", "y">>, <<"h", "o", "u", "s", "e">>
              , <<"a", "p", "a", "r", "t", "m", "e", "n", "t">>
              , <<"m", "a", "i", "n", "t", "e", "n", "a", "n", "c", "e">>
              , <<"m", "u", "n", "i", "c", "i", "p", "a", "l">>
              , <<"p", "r", "o", "p", "e", "r", "t", "y", " ", "t", "a", "x">> },
          patterns |->
            << [kind |-> "parts", parts |-> << <<"r", "e", "n", "t">>, <<"r", "e", "c", "e", "i", "v", "e", "d">> >>],
               [kind |-> "parts", parts |-> << <<"r", "e", "n", "t", "a", "l">>, <<"i", "n", "c", "o", "m", "e">> >>],
               [kind |-> "parts", parts |-> << <<"h", "o", "u", "s", "e">>, <<"r", "e", "n", "t">> >>] >> ],
      business_profession |->
        [ keywords |->
            { <<"b", "u", "s", "i", "n", "e", "s", "s">>
              , <<"p", "r", "o", "f", "e", "s", "s", "i", "o", "n">>
              , <<"c", "o", "n", "s", "u", "l", "t", "a", "n", "c", "y">>
              , <<"f", "r", "e", "e", "l", "a", "n", "c", "e">>
              , <<"s", "e", "r", "v", "i", "c", "e">>
              , <<"c", "o", "n", "t", "r", "a", "c", "t">>
              , <<"i", "n", "v", "o", "i", "c", "e">>, <<"f", "e", "e", "s">> },
          patterns |->
            << [kind |-> "parts", parts |-> << <<"p", "r", "o", "f", "e", "s", "s", "i", "o", "n", "a", "l">>, <<"f", "e", "e", "s">> >>],
               [kind |-> "parts", parts |-> << <<"c", "o", "n", "s", "u", "l", "t", "a", "n", "c", "y">>, <<"i", "n", "c", "o", "m", "e">> >>],
               [kind |-> "parts", parts |-> << <<"b", "u", "s", "i", "n", "e", "s", "s">>, <<"i", "n", "c", "o", "m", "e">> >>] >> ],
      capital_gains |->
        [ keywords |->
            { <<"s", "h", "a", "r", "e", "s">>, <<"s", "t", "o", "c", "k", "s">>
              , <<"m", "u", "t", "u", "a", "l", " ", "f", "u", "n", "d">>
              , <<"s", "i", "p">>, <<"e", "q", "u", "i", "t", "y">>
              , <<"b", "o", "n", "d">>
              , <<"s", "e", "c", "u", "r", "i", "t", "i", "e", "s">>
              , <<"i", "n", "v", "e", "s", "t", "m", "e", "n", "t">>
              , <<"c", "a", "p", "i", "t", "a", "l", " ", "g", "a", "i", "n">> },
          patterns |->
            << [kind |-> "parts", parts |-> << <<"s", "h", "a", "r", "e">>, <<"s", "a", "l", "e">> >>],
               [kind |-> "parts", parts |-> << <<"s", "t", "o", "c", "k">>, <<"p", "r", "o", "f", "i", "t">> >>],
               [kind |-> "parts", parts |-> << <<"m", "u", "t", "u", "a", "l">>, <<"f", "u", "n", "d">>, <<"r", "e", "d", "e", "m", "p", "t", "i", "o", "n">> >>] >> ],
      other_sources |->
        [ keywords |->
            { <<"i", "n", "t", "e", "r", "e", "s", "t">>
              , <<"d", "i", "v", "i", "d", "e", "n", "d">>, <<"f", "d">>
              , <<"f", "i", "x", "e", "d", " ", "d", "e", "p", "o", "s", "i", "t">>
              , <<"s", "a", "v", "i", "n", "g", "s">>
              , <<"l", "o", "t", "t", "e", "r", "y">>, <<"g", "i", "f", "t">>
              , <<"o", "t", "h", "e", "r", " ", "i", "n", "c", "o", "m", "e">> },
          patterns |->
            << [kind |-> "parts", parts |-> << <<"i", "n", "t", "e", "r", "e", "s", "t">>, <<"e", "a", "r", "n", "e", "d">> >>],
               [kind |-> "parts", parts |-> << <<"d", "i", "v", "i", "d", "e", "n", "d">>, <<"r", "e", "c", "e", "i", "v", "e", "d">> >>],
               [kind |-> "parts", parts |-> << <<"f", "d">>, <<"m", "a", "t", "u", "r", "i", "t", "y">> >>] >> ] ]

IsDigit(c) == c \in {"0", "1", "2", "3", "4", "5", "6", "7", "8", "9"}
\* the hyphen, the en dash and the em dash of the class [\-...]
IsDash(c) == c \in {"-", "en dash", "em dash"}

AllIn(d, from, to, space) ==
    \A k \in from..to : IF space THEN IsSpace(d[k]) ELSE IsLetter(d[k])

\* salary\s*[\-\u2013\u2014]?\s*([a-zA-Z]+)\s+(\d{4}) matches somewhere in d
SalaryMonthYear(d) ==
    \E s \in 1..Len(d) :
        /\ Slice(d, s, s + 5) = <<"s", "a", "l", "a", "r", "y">>
        /\ \E p1 \in (s + 6)..Len(d) : \E p2 \in {p1, p1 + 1} :
           \E p3 \in p2..Len(d) : \E p4 \in (p3 + 1)..Len(d) :
           \E p5 \in (p4 + 1)..(Len(d) - 3) :
              /\ AllIn(d, s + 6, p1 - 1, TRUE)
              /\ p2 = p1 + 1 => IsDash(d[p1])
              /\ AllIn(d, p2, p3 - 1, TRUE)
              /\ AllIn(d, p3, p4 - 1, FALSE)
              /\ AllIn(d, p4, p5 - 1, TRUE)
              /\ \A k \in p5..(p5 + 3) : IsDigit(d[k])

\* the parts from the p-th on occur in this order from index from on, with no
\* newline before any of them ("." matches no newline)
RECURSIVE PartsFrom(_, _, _, _)
PartsFrom(d, parts, p, from) ==
    IF p > Len(parts) THEN TRUE
    ELSE \E k \in from..(Len(d) - Len(parts[p]) + 1) :
            /\ SubSeq(d, k, k + Len(parts[p]) - 1) = parts[p]
            /\ \A j \in from..(k - 1) : d[j] # "\n"
            /\ PartsFrom(d, parts, p + 1, k + Len(parts[p]))

\* re.search(pattern, desc_lower, re.IGNORECASE)
PatternMatches(d, pattern) ==
    IF pattern.kind = "salary_month_year" THEN SalaryMonthYear(d)
    ELSE \E k \in 1..(Len(d) - Len(pattern.parts[1]) + 1) :
            /\ SubSeq(d, k, k + Len(pattern.parts[1]) - 1) = pattern.parts[1]
            /\ PartsFrom(d, pattern.parts, 2, k + Len(pattern.parts[1]))

HeadMatches(desc_lower, head) ==
    \/ ContainsAny(desc_lower, INCOME_HEAD_KEYWORDS[head].keywords)
    \/ \E p \in 1..Len(INCOME_HEAD_KEYWORDS[head].patterns) :
          PatternMatches(desc_lower, INCOME_HEAD_KEYWORDS[head].patterns[p])

\* mutant: the last head that matches returned, not the first
classify_last_match(description, amount, txn_type) ==
    LET desc_lower == Lower(description)
        hits == {i \in 1..Len(HEADS) : HeadMatches(desc_lower, HEADS[i])}
    IN  IF hits # {} THEN HEADS[CHOOSE i \in hits : \A j \in hits : i >= j]
        ELSE IF txn_type = "received" THEN "other_sources"
        ELSE "expense"

classify_transaction_by_section14(description, amount, txn_type) ==
    LET desc_lower == Lower(description)
        hits == {i \in 1..Len(HEADS) : HeadMatches(desc_lower, HEADS[i])}
    IN  IF hits # {} THEN HEADS[CHOOSE i \in hits : \A j \in hits : i <= j]
        ELSE IF txn_type = "received" THEN "other_sources"
        ELSE "expense"

TDS_WORDS == { <<"t", "d", "s">>, <<"t", "a", "x", " ", "d", "e", "d", "u", "c", "t", "e", "d">> }

\* the locals of analyze_income_by_heads before the loop
heads_locals ==
    [ income_heads |-> [h \in HeadSet |-> <<>>],
      head_totals |-> [h \in HeadSet |-> 0],
      total_expenses |-> 0, tds_deducted |-> 0 ]

\* one iteration of the loop of analyze_income_by_heads
process_head_txn(acc, txn) ==
    IF ~Readable(txn) THEN acc
    ELSE
    LET amount == txn.amount.value
        desc == txn.description
        txn_type == Get(txn, "type", "")
        head == classify_transaction_by_section14(desc, amount, txn_type)
        a1 == IF txn_type = "received"
              THEN IF head \in DOMAIN acc.income_heads
                   THEN [acc EXCEPT
                           !.income_heads[head] =
                               Append(@, [date |-> txn.created_at, description |-> desc,
                                          amount |-> amount]),
                           !.head_totals[head] = @ + amount]
                   ELSE acc
              ELSE IF txn_type \in {"sent", "expense"}
              THEN [acc EXCEPT !.total_expenses = @ + amount]
              ELSE acc
    IN  IF txn_type = "received" /\ head \in DOMAIN acc.income_heads
           /\ "created_at" \notin DOMAIN txn
        THEN acc
        ELSE IF ContainsAny(Lower(desc), TDS_WORDS)
        THEN [a1 EXCEPT !.tds_deducted = @ + amount]
        ELSE a1

RECURSIVE SumValues(_, _)
SumValues(d, keys) ==
    IF keys = {} THEN 0
    ELSE LET k == CHOOSE x \in keys : TRUE
         IN  d[k] + SumValues(d, keys \ {k})

\* the dict returned by analyze_income_by_heads
heads_result(acc) ==
    [ income_heads |-> acc.income_heads,
      head_totals |-> acc.head_totals,
      total_income |-> SumValues(acc.head_totals, DOMAIN acc.head_totals),
      total_expenses |-> acc.total_expenses,
      tds_deducted |-> acc.tds_deducted,
      net_savings |-> SumValues(acc.head_totals, DOMAIN acc.head_totals)
                      - acc.total_expenses ]

(***************************************************************************)
(* One invocation of an aggregator over a batch                            *)
(***************************************************************************)

Comprehensive == "analyze_transactions_comprehensive"
ByHeads == "analyze_income_by_heads"

Idle == [fn |-> "none", at |-> "idle", i |-> 0]
NotReturned == [returned |-> FALSE]

InitIdleAgg ==
    /\ transactions = <<>>
    /\ pc = Idle
    /\ locals = <<>>
    /\ result = NotReturned


(***************************************************************************)
(* The tax operations and their inputs                                     *)
(***************************************************************************)

MaxIncomeSteps == 6
MaxBusinessSteps == 2

\* the taxable incomes at which a flat regime changes its rate
FlatBoundaries == {250000, 500000, 700000, 1000000} \cup {300000 * k : k \in 1..5}

\* total_income values that put taxable_income on and just over each boundary
BoundaryIncomes == {b + standard_deduction + d : b \in FlatBoundaries, d \in 0..1}

GridIncomes == {250000 * k : k \in 0..MaxIncomeSteps}

InvestmentLists ==
    { <<>>,
      << [date |-> "2024-06-01", amount |-> 150000, description |-> "lic premium"] >> }

Analysis(income, investments) ==
    [ total_income |-> income, investment_entries |-> investments,
      tds_paid |-> 0, salary_sources |-> <<>> ]

Analyses ==
    {Analysis(i, <<>>) : i \in BoundaryIncomes \cup GridIncomes \cup {40000}}
    \cup {Analysis(i, inv) : i \in GridIncomes, inv \in InvestmentLists}

FewAnalyses == {Analysis(i, <<>>) : i \in BoundaryIncomes \cup {40000}}

FiniteLimits ==
    {NEW_REGIME_SLABS[i].limit : i \in {j \in 1..Len(NEW_REGIME_SLABS) :
                                          ~NEW_REGIME_SLABS[j].unbounded}}

\* salaries whose taxable part is on and just over each head-wise slab limit
SalaryInputs ==
    {0, 50000} \cup {l + STANDARD_DEDUCTION + d : l \in FiniteLimits, d \in 0..1}

HeadTotals(salary, house, business, gains, other) ==
    [ salary |-> salary, house_property |-> house, business_profession |-> business,
      capital_gains |-> gains, other_sources |-> other ]

AllHeadTotals ==
    {HeadTotals(s, h, 50000 * b, g, o) :
        s \in SalaryInputs, h \in {0, 10, 100000}, b \in 0..MaxBusinessSteps,
        g \in {0, 300000}, o \in {0, 1}}

FewHeadTotals == {HeadTotals(s, 0, 0, 0, 0) : s \in SalaryInputs}

\* the two calculators tabulated over the inputs of the model
SummaryOf ==
    [a \in Analyses \cup FewAnalyses |-> [u \in Users |-> full_year_summary(a, u)]]
TaxCalcOf == [h \in AllHeadTotals |-> calculate_tax_liability_enhanced(h)]

InitTax ==
    /\ reports = [p \in FilePaths |-> NoFile]
    /\ response = NoCall

\* Mode A: computes the summary, writes it to the user's file, returns the report
calculate_full_year_tax_optimized(inputs) ==
    \E user_id \in Users, analysis \in inputs :
        /\ reports' = write_report(reports, file_path(user_id),
                                   SummaryOf[analysis][user_id])
        /\ response' = [ op |-> "calculate_full_year_tax_optimized",
                         user_id |-> user_id, analysis |-> analysis,
                         overwrote |-> reports[file_path(user_id)].exists ]
        /\ UNCHANGED <<transactions, pc, locals, result>>

\* Mode B: computes tax_calc from the head totals and returns the report text
generate_detailed_tax_report(inputs) ==
    \E user_id \in Users, head_totals \in inputs :
        /\ response' = [ op |-> "generate_detailed_tax_report",
                         user_id |-> user_id, head_totals |-> head_totals,
                         tax_calc |-> TaxCalcOf[head_totals] ]
        /\ UNCHANGED <<reports, transactions, pc, locals, result>>

Init == InitTax /\ InitIdleAgg

NextA == calculate_full_year_tax_optimized(Analyses)
SpecA == Init /\ [][NextA]_vars

NextB == generate_detailed_tax_report(AllHeadTotals)
SpecB == Init /\ [][NextB]_vars

Next ==
    \/ calculate_full_year_tax_optimized(FewAnalyses)
    \/ generate_detailed_tax_report(FewHeadTotals)
Spec == Init /\ [][Next]_vars

(***************************************************************************)
(* The aggregators over a batch                                            *)
(***************************************************************************)

InitAgg ==
    /\ transactions \in Batches
    /\ pc \in {[fn |-> f, at |-> "start", i |-> 0] : f \in {Comprehensive, ByHeads}}
    /\ locals = <<>>
    /\ result = NotReturned
    /\ InitTax

\* the value handed back to the caller, who may hold the value of an earlier call
Returning(value) == [returned |-> TRUE, value |-> value] @@ result

\* if not transactions: return {}
ReturnEmpty ==
    /\ pc.fn = Comprehensive /\ pc.at = "start"
    /\ transactions = <<>>
    /\ pc' = [pc EXCEPT !.at = "done"]
    /\ result' = Returning(<<>>)
    /\ UNCHANGED <<transactions, locals, reports, response>>

\* the initialisation of the totals and lists before the loop
Start ==
    /\ pc.at = "start"
    /\ pc.fn = Comprehensive => transactions # <<>>
    /\ pc' = [pc EXCEPT !.at = "loop", !.i = 1]
    /\ locals' = IF pc.fn = Comprehensive THEN comprehensive_locals ELSE heads_locals
    /\ UNCHANGED <<transactions, result, reports, response>>

\* for txn in transactions: try: ... except Exception: continue  (new.py)
ProcessTxn ==
    /\ pc.fn = Comprehensive /\ pc.at = "loop"
    /\ pc.i <= Len(transactions)
    /\ locals' = process_txn(locals, transactions[pc.i])
    /\ pc' = [pc EXCEPT !.i = @ + 1]
    /\ UNCHANGED <<transactions, result, reports, response>>

\* for txn in transactions: try: ... except Exception: continue  (book3.py)
ProcessHeadTxn ==
    /\ pc.fn = ByHeads /\ pc.at = "loop"
    /\ pc.i <= Len(transactions)
    /\ locals' = process_head_txn(locals, transactions[pc.i])
    /\ pc' = [pc EXCEPT !.i = @ + 1]
    /\ UNCHANGED <<transactions, result, reports, response>>

\* return {...}
Return ==
    /\ pc.at = "loop"
    /\ pc.i > Len(transactions)
    /\ pc' = [pc EXCEPT !.at = "done"]
    /\ result' = Returning(IF pc.fn = Comprehensive THEN comprehensive_result(locals)
                            ELSE heads_result(locals))
    /\ UNCHANGED <<transactions, locals, reports, response>>

NextAgg == ReturnEmpty \/ Start \/ ProcessTxn \/ ProcessHeadTxn \/ Return
SpecAgg == InitAgg /\ [][NextAgg]_vars

\* the rows of a batch in another order
Reordered(txns, p) == [i \in 1..Len(txns) |-> txns[p[i]]]

\* a later query: the rows of the same user are fetched again, in whatever order
\* the table returns them, and analyze_transactions_comprehensive is called on them
CallAgain ==
    /\ pc.fn = Comprehensive /\ pc.at = "done"
    /\ "previous" \notin DOMAIN result
    /\ \E p \in Permutations(1..Len(transactions)) :
          transactions' = Reordered(transactions, p)
    /\ pc' = [pc EXCEPT !.at = "start", !.i = 0]
    /\ locals' = <<>>
    /\ result' = [ returned |-> FALSE,
                   previous |-> [transactions |-> transactions, value |-> result.value] ]
    /\ UNCHANGED <<reports, response>>

InitRerun == InitAgg /\ pc.fn = Comprehensive
NextRerun == ReturnEmpty \/ Start \/ ProcessTxn \/ Return \/ CallAgain
SpecRerun == InitRerun /\ [][NextRerun]_vars


(***************************************************************************)
(* The classifier on its own: classify_transaction_by_section14            *)
(***************************************************************************)

DescHra ==
    << "h", "o", "u", "s", "e", " ", "r", "e", "n", "t", " ", "a", "l", "l", "o", "w",
       "a", "n", "c", "e" >>
DescPaySlip ==
    << "p", "a", "y", " ", "s", "l", "i", "p" >>
DescPaySlipUpper ==
    << "P", "A", "Y", " ", "S", "L", "I", "P" >>
DescPayBrokenSlip ==
    << "p", "a", "y", "\n", "s", "l", "i", "p" >>
DescFees ==
    << "p", "r", "o", "f", "e", "s", "s", "i", "o", "n", "a", "l", " ", "f", "e", "e",
       "s" >>
DescFreelance ==
    << "f", "r", "e", "e", "l", "a", "n", "c", "e", " ", "i", "n", "v", "o", "i", "c",
       "e" >>
DescShares ==
    << "s", "a", "l", "e", " ", "o", "f", " ", "s", "h", "a", "r", "e", "s" >>
DescStockProfit ==
    << "s", "t", "o", "c", "k", " ", "p", "r", "o", "f", "i", "t" >>
DescDividend ==
    << "d", "i", "v", "i", "d", "e", "n", "d", " ", "r", "e", "c", "e", "i", "v", "e",
       "d" >>
DescMonday ==
    << "m", "o", "n", "d", "a", "y", " ", "g", "r", "o", "c", "e", "r", "i", "e", "s" >>
DescRentBusiness ==
    << "r", "e", "n", "t", " ", "o", "n", " ", "b", "u", "s", "i", "n", "e", "s", "s",
       " ", "p", "r", "o", "p", "e", "r", "t", "y" >>
DescBondInterest ==
    << "i", "n", "t", "e", "r", "e", "s", "t", " ", "o", "n", " ", "b", "o", "n", "d" >>
DescGift ==
    << "g", "i", "f", "t" >>
DescDriver ==
    << "s", "a", "l", "a", "r", "y", " ", "f", "o", "r", " ", "d", "r", "i", "v", "e",
       "r" >>

\* the descriptions the classifier is called with
Descriptions ==
    { DescSalary, DescHra, DescPaySlip, DescPaySlipUpper, DescPayBrokenSlip, DescRent,
      DescRentBusiness, DescFees, DescFreelance, DescShares, DescStockProfit, DescSip,
      DescFd, DescDividend, DescBondInterest, DescGift, DescMonday, DescDriver, DescCash,
      DescMovie, DescLoan, DescZomato, DescRamesh }

TxnTypes == {"received", "sent", "expense", "loan_payment", ""}
ClassifyAmounts == {100, 5000}

HeadOf ==
    [ description \in Descriptions |->
        [ txn_type \in TxnTypes |->
            [ amount \in ClassifyAmounts |->
                classify_transaction_by_section14(description, amount, txn_type) ] ] ]

\* one call of classify_transaction_by_section14
Classify ==
    \E description \in Descriptions, amount \in ClassifyAmounts, txn_type \in TxnTypes :
        /\ response' = [ op |-> "classify_transaction_by_section14",
                         description |-> description, amount |-> amount,
                         txn_type |-> txn_type,
                         head |-> HeadOf[description][txn_type][amount] ]
        /\ UNCHANGED <<reports, transactions, pc, locals, result>>

NextClassify == Classify
SpecClassify == Init /\ [][NextClassify]_vars


(***************************************************************************)
(* The loan engine: generate_repayment_schedule (loan.py)                  *)
(*                                                                         *)
(* Money is counted in thousandths of a rupee and a rate in basis points   *)
(* per year; a float product or quotient is the exact one rounded to the   *)
(* nearest unit.                                                           *)
(***************************************************************************)

Milli(rupees) == rupees * 1000

LOAN_OPTIMIZATION_DEFAULT_LOAN_AMOUNT == 1200000
LOAN_OPTIMIZATION_DEFAULT_INTEREST_RATE == 900
LOAN_OPTIMIZATION_DEFAULT_LOAN_YEARS == 5

\* the basis points of a year in a monthly rate of 1: interest_rate / 12
MonthlyRateScale == 120000

\* 1.0 in the fixed point of (1 + monthly_interest) ** n_months
FixedOne == 134217728

\* a * b = q * c + r with 0 <= r < c, digit by digit of b in base 8, for c
\* below 2 * FixedOne
RECURSIVE MulDivRem(_, _, _)
MulDivRem(a, b, c) ==
    IF b = 0 THEN [q |-> 0, r |-> 0]
    ELSE LET high == MulDivRem(a, b \div 8, c)
             shifted == 8 * high.r
             digit == (b % 8) * (a % c)
             r == (shifted % c) + (digit % c)
             q == 8 * high.q + (shifted \div c) + (digit \div c) + (b % 8) * (a \div c)
         IN  IF r >= c THEN [q |-> q + 1, r |-> r - c] ELSE [q |-> q, r |-> r]

\* a * b / c, to the nearest unit, of amounts that are not negative
MulDiv(a, b, c) ==
    IF a \in Nat /\ b \in Nat
    THEN LET qr == MulDivRem(a, b, c)
         IN  IF qr.r >= c - qr.r THEN qr.q + 1 ELSE qr.q
    ELSE 0

\* balance * monthly_interest, to the nearest unit: the whole multiples of
\* MonthlyRateScale in the balance and the rest of it apart
interest_on(balance, interest_rate) ==
    (balance \div MonthlyRateScale) * interest_rate
    + ((balance % MonthlyRateScale) * interest_rate + MonthlyRateScale \div 2)
        \div MonthlyRateScale

\* x * (1 + monthly_interest) ** n_months: the months in two runs, one after
\* the other
RECURSIVE grow(_, _, _)
grow(x, interest_rate, n_months) ==
    IF x = 0 \/ n_months = 0 THEN x
    ELSE IF n_months = 1 THEN x + interest_on(x, interest_rate)
    ELSE grow(grow(x, interest_rate, n_months \div 2), interest_rate,
              n_months - n_months \div 2)

\* (1 + monthly_interest) ** n_months, in units of 1 / FixedOne
compound(interest_rate, n_months) == grow(FixedOne, interest_rate, n_months)

\* mutant: the principal spread over the months with no interest in the EMI
calculate_emi_no_interest(loan_amount, interest_rate, n_months) ==
    IF n_months > 0 THEN loan_amount \div n_months ELSE 0

\* the EMI of generate_repayment_schedule
calculate_emi(loan_amount, interest_rate, n_months) ==
    IF interest_rate = 0
    THEN IF n_months > 0 THEN MulDiv(loan_amount, 1, n_months) ELSE 0
    ELSE LET x == compound(interest_rate, n_months)
         IN  MulDiv(x, interest_on(loan_amount, interest_rate), x - FixedOne)

\* the locals of generate_repayment_schedule before its loop
schedule_locals(loan_amount, interest_rate, years, extra_annual_payment) ==
    [ loan_amount |-> loan_amount, interest_rate |-> interest_rate,
      n_months |-> years * 12, extra_annual_payment |-> extra_annual_payment,
      balance |-> loan_amount,
      emi |-> calculate_emi(loan_amount, interest_rate, years * 12),
      schedule |-> <<>>, year |-> 2025, month |-> 6, months_processed |-> 0 ]

\* while balance > 0 and months_processed < n_months
schedule_continues(st) == st.balance > 0 /\ st.months_processed < st.n_months

\* mutant: the balance set to the larger of the two, not reduced by the smaller
extra_payment_max(balance, month, extra_annual_payment) ==
    IF month % 12 = 0 /\ extra_annual_payment > 0 /\ balance > 0
    THEN Max(balance, extra_annual_payment)
    ELSE balance

\* if month % 12 == 0 and extra_annual_payment > 0 and balance > 0: balance -= payment
extra_payment(balance, month, extra_annual_payment) ==
    IF month % 12 = 0 /\ extra_annual_payment > 0 /\ balance > 0
    THEN balance - Min(balance, extra_annual_payment)
    ELSE balance

\* one iteration of the loop of generate_repayment_schedule
schedule_month(st) ==
    LET interest == IF st.interest_rate > 0 THEN interest_on(st.balance, st.interest_rate)
                    ELSE 0
        last == st.balance < st.emi
        principal == IF last THEN st.balance
                     ELSE IF st.interest_rate > 0 THEN st.emi - interest ELSE st.emi
        emi == IF last
               THEN (IF st.interest_rate > 0 THEN st.balance + interest ELSE st.balance)
               ELSE st.emi
        end_balance == st.balance - principal
        month == st.month + 1
    IN  [ st EXCEPT
            !.schedule = Append(@, [ Year |-> st.year, Month |-> (st.month % 12) + 1,
                                     BeginningBalance |-> Round2(st.balance),
                                     EMI |-> Round2(emi),
                                     Principal |-> Round2(principal),
                                     Interest |-> Round2(interest),
                                     EndingBalance |-> Round2(end_balance) ]),
            !.emi = emi,
            !.balance = extra_payment(end_balance, month, st.extra_annual_payment),
            !.months_processed = @ + 1,
            !.month = month,
            !.year = IF month % 12 = 0 THEN @ + 1 ELSE @ ]

\* the loans a schedule is generated for: the one of _run_loan_optimization_core,
\* one without interest, and two smaller ones
Loan(loan_amount, interest_rate, years) ==
    [loan_amount |-> Milli(loan_amount), interest_rate |-> interest_rate, years |-> years]

DefaultLoan ==
    Loan(LOAN_OPTIMIZATION_DEFAULT_LOAN_AMOUNT, LOAN_OPTIMIZATION_DEFAULT_INTEREST_RATE,
         LOAN_OPTIMIZATION_DEFAULT_LOAN_YEARS)

Loans ==
    { DefaultLoan,
      Loan(LOAN_OPTIMIZATION_DEFAULT_LOAN_AMOUNT, 0, LOAN_OPTIMIZATION_DEFAULT_LOAN_YEARS),
      Loan(100000, 1200, 1), Loan(250000, 750, 3) }

\* the totals of non-essential spending handed over as extra_annual_payment
ExtraPayments == {Milli(x) : x \in {0, 1, 1000, 50000, 200000, 1200000, 2000000}}

RunLoan == "_run_loan_optimization_core"

InitLoan ==
    /\ \E loan \in Loans :
          locals = schedule_locals(loan.loan_amount, loan.interest_rate, loan.years, 0)
    /\ pc = [fn |-> RunLoan, at |-> "normal_schedule", i |-> 0]
    /\ transactions = <<>>
    /\ result = NotReturned
    /\ InitTax

\* one month of the schedule that is being generated
ScheduleMonth ==
    /\ pc.fn = RunLoan /\ pc.at \in {"normal_schedule", "optimized_schedule"}
    /\ schedule_continues(locals)
    /\ locals' = schedule_month(locals)
    /\ pc' = [pc EXCEPT !.i = @ + 1]
    /\ UNCHANGED <<transactions, result, reports, response>>

\* schedule_df is returned; the months of the transactions are summed up to
\* total_extra_payment and the optimized schedule is started with it
StartOptimized ==
    /\ pc.fn = RunLoan /\ pc.at = "normal_schedule"
    /\ ~schedule_continues(locals)
    /\ \E total_extra_payment \in ExtraPayments :
          locals' = schedule_locals(locals.loan_amount, locals.interest_rate,
                                    locals.n_months \div 12, total_extra_payment)
    /\ result' = [ returned |-> FALSE, normal_schedule |-> locals.schedule ]
    /\ pc' = [pc EXCEPT !.at = "optimized_schedule", !.i = 0]
    /\ UNCHANGED <<transactions, reports, response>>

\* return {..., 'normal_schedule': schedule_df, 'optimized_schedule': optimized_schedule}
ReturnLoan ==
    /\ pc.fn = RunLoan /\ pc.at = "optimized_schedule"
    /\ ~schedule_continues(locals)
    /\ result' = [ returned |-> TRUE,
                   value |-> [ monthly_emi |->
                                 IF result.normal_schedule = <<>> THEN 0
                                 ELSE result.normal_schedule[1].EMI,
                               total_extra_payment |-> locals.extra_annual_payment,
                               normal_schedule |-> result.normal_schedule,
                               optimized_schedule |-> locals.schedule ] ]
    /\ pc' = [pc EXCEPT !.at = "done"]
    /\ UNCHANGED <<transactions, locals, reports, response>>

NextLoan == ScheduleMonth \/ StartOptimized \/ ReturnLoan
SpecLoan == InitLoan /\ [][NextLoan]_vars

(***************************************************************************)
(* The loan pipeline: loan_optimization_pipeline and the spending analysis *)
(* of _run_loan_optimization_core (loan.py)                                *)
(*                                                                         *)
(* A frame is the sequence of its rows; a cell that is no text is one of   *)
(* the markers NONE, NUMBER, NAN. Amounts are thousandths of a rupee.      *)
(***************************************************************************)

CatOtherLower ==
    << "o", "t", "h", "e", "r" >>
CatEntertainment ==
    << "e", "n", "t", "e", "r", "t", "a", "i", "n", "m", "e", "n", "t" >>
CatTravel ==
    << "t", "r", "a", "v", "e", "l" >>
CatHealth ==
    << "h", "e", "a", "l", "t", "h" >>
CatFestival ==
    << "f", "e", "s", "t", "i", "v", "a", "l" >>
CatEmergency ==
    << "e", "m", "e", "r", "g", "e", "n", "c", "y" >>
CatGifts ==
    << "g", "i", "f", "t", "s" >>
CatUtilities ==
    << "u", "t", "i", "l", "i", "t", "i", "e", "s" >>
CatFoodTitle ==
    << "F", "o", "o", "d" >>
CatFoodPadded ==
    << " ", "f", "o", "o", "d", " " >>
CatRent ==
    << "r", "e", "n", "t" >>
CatEducation ==
    << "e", "d", "u", "c", "a", "t", "i", "o", "n" >>
TextNan ==
    << "n", "a", "n" >>
TextIncome ==
    << "i", "n", "c", "o", "m", "e" >>
TextSchool ==
    << "s", "c", "h", "o", "o", "l" >>
DescSalaryJune ==
    << "S", "a", "l", "a", "r", "y", " ", "J", "u", "n", "e" >>
DescIncomeBonus ==
    << "b", "o", "n", "u", "s", " ", "I", "N", "C", "O", "M", "E" >>
DescGroceries ==
    << "g", "r", "o", "c", "e", "r", "i", "e", "s" >>
DescDinner ==
    << "d", "i", "n", "n", "e", "r" >>
DescSnacks ==
    << "s", "n", "a", "c", "k", "s" >>
DescHouseRent ==
    << "h", "o", "u", "s", "e", " ", "r", "e", "n", "t" >>
DescSchoolFees ==
    << "s", "c", "h", "o", "o", "l", " ", "f", "e", "e", "s" >>
DescShoes ==
    << "s", "h", "o", "e", "s" >>
DescTaxi ==
    << "t", "a", "x", "i" >>

LoanPipeline == "loan_optimization_pipeline"

\* a category that is a number, and the NaN .str.lower() leaves in its place
NUMBER == <<"int">>
NAN == <<"NaN">>

NoDate == [iso |-> FALSE, text |-> ""]

LOAN_OPTIMIZATION_BASE_CATEGORIES ==
    (CatFood :> 10) @@ (CatEntertainment :> 5) @@ (CatShopping :> 6) @@ (CatTravel :> 5)
    @@ (CatHealth :> 10) @@ (CatFestival :> 5) @@ (CatEmergency :> 10)
    @@ (CatInvestment :> 10) @@ (CatGifts :> 5) @@ (CatUtilities :> 10) @@ (CatSalary :> 0)

\* the rows the pipeline is called with
LoanSalary == Txn(60000, DescSalaryJune, "received", CatSalary, IsoDate(2025, 6, 1))
LoanBonus == Txn(90000, DescIncomeBonus, "Received", CatSalary, IsoDate(2025, 6, 20))
LoanGroceries == Txn(700, DescGroceries, "expense", CatFoodTitle, IsoDate(2025, 6, 5))
LoanDinner == Txn(500, DescDinner, "expense", CatFoodPadded, IsoDate(2025, 6, 3))
LoanSnacks == Txn(300, DescSnacks, "expense", CatFood, IsoDate(2025, 6, 5))
LoanRent == Txn(15000, DescHouseRent, "sent", CatRent, IsoDate(2025, 6, 2))
LoanSchool == Txn(2000, DescSchoolFees, "sent", CatEducation, IsoDate(2025, 7, 10))
LoanShoes == Txn(1200, DescShoes, "expense", CatShopping, IsoDate(2025, 7, 15))
LoanBadDate == Txn(400, DescPizza, "expense", CatFood, BadDate)
LoanNoDate == Without(Txn(250, DescTaxi, "expense", CatTravel, NoDate), "created_at")
LoanBadAmount ==
    [Txn(0, DescPizza, "expense", CatFood, IsoDate(2025, 6, 4)) EXCEPT
        !.amount = [numeric |-> FALSE]]
LoanNumberCategory == Txn(250, DescTaxi, "expense", NUMBER, IsoDate(2025, 6, 6))
LoanNoCategory == Txn(350, DescGift, "expense", NONE, IsoDate(2025, 6, 7))

LoanPool ==
    { LoanSalary, LoanBonus, LoanGroceries, LoanDinner, LoanSnacks, LoanRent, LoanSchool,
      LoanShoes, LoanBadDate, LoanNoDate, LoanBadAmount, LoanNumberCategory, LoanNoCategory }

MaxLoanBatch == 2

\* the batches: every short one, and months with a salary and several rows of
\* one category
LoanBatches ==
    UNION {[1..n -> LoanPool] : n \in 0..MaxLoanBatch}
    \cup { <<LoanGroceries, LoanSalary, LoanDinner, LoanSnacks>>,
           <<LoanSalary, LoanSnacks, LoanGroceries, LoanDinner, LoanRent>>,
           <<LoanSalary, LoanBonus, LoanGroceries, LoanShoes, LoanSchool>>,
           <<LoanBadDate, LoanNoDate, LoanBadDate>>,
           <<LoanSalary, LoanGroceries, LoanBadAmount, LoanDinner>>,
           <<LoanSalary, LoanGroceries, LoanNumberCategory, LoanNoCategory>> }

\* float(txn.get('amount', 0.0)) raises on a value that is no number
float_raises(txn) == "amount" \in DOMAIN txn /\ ~txn.amount.numeric

\* the dict appended to df_data for a transaction (lines 111-117)
frame_row(txn) ==
    [ transaction_date |-> Get(txn, "created_at", NoDate),
      category |-> Get(txn, "category", CatOther),
      amount |-> IF "amount" \in DOMAIN txn THEN Milli(txn.amount.value) ELSE 0,
      description |-> Get(txn, "description", <<>>),
      type |-> Get(txn, "type", "unknown") ]

\* str.lower() of a type
lower_type(type) == IF type = "Received" THEN "received" ELSE type

\* pd.to_datetime(..., errors='coerce') and dropna(subset=['transaction_date'])
dropna(df) == SelectSeq(df, LAMBDA row : row.transaction_date.iso)

\* .str on a column that holds nothing but numbers raises AttributeError
str_raises(df) == \A k \in 1..Len(df) : df[k].category = NUMBER

\* fillna('Other').str.lower().str.strip() of one cell
normal_category(category) ==
    IF category = NONE THEN Strip(Lower(CatOther))
    ELSE IF category = NUMBER THEN NAN
    ELSE Strip(Lower(category))

\* dt.to_period('M')
to_period(date) == <<date.year, date.month>>

\* lines 334-337: the frame the core works on
core_frame(df) ==
    LET kept == dropna(df)
    IN  [ k \in 1..Len(kept) |->
            [ transaction_date |-> kept[k].transaction_date,
              category |-> normal_category(kept[k].category),
              amount |-> kept[k].amount,
              description |-> kept[k].description,
              type |-> kept[k].type,
              month |-> to_period(kept[k].transaction_date) ] ]

Unmarried == "Unmarried_but_Living_with_family"
Bachelor == "Bachelor_Living_Alone"
Married == "Married_Living_with_family_with_children"

\* df['category'].str.lower().fillna('')
lifestyle_category(category) == IF category = NAN THEN <<>> ELSE Lower(category)

infer_lifestyle(df) ==
    LET categories == {lifestyle_category(df[k].category) : k \in 1..Len(df)}
    IN  IF df = <<>> THEN Unmarried
        ELSE IF \E c \in categories : Contains(c, TextSchool) \/ Contains(c, CatEducation)
        THEN Married
        ELSE IF (\E c \in categories : Contains(c, CatRent))
                /\ (\E c \in categories : Contains(c, CatFood))
        THEN Bachelor
        ELSE Unmarried

\* the percentages of dynamic_threshold_adjuster for a lifestyle (lines 253-263)
adjustments(lifestyle) ==
    [ cat \in DOMAIN LOAN_OPTIMIZATION_BASE_CATEGORIES |->
        LOAN_OPTIMIZATION_BASE_CATEGORIES[cat]
        + CASE lifestyle = Unmarried ->
                 (IF cat = CatFood THEN -1 ELSE IF cat = CatFestival THEN -2
                  ELSE IF cat = CatEntertainment THEN 1 ELSE 0)
            [] lifestyle = Bachelor ->
                 (IF cat = CatFood THEN 2 ELSE IF cat = CatEntertainment THEN 1 ELSE 0)
            [] lifestyle = Married ->
                 (IF cat = CatFood THEN 2 ELSE IF cat = CatFestival THEN 2
                  ELSE IF cat = CatHealth THEN 3 ELSE 0)
            [] OTHER -> 0 ]

\* round(amount * perc, 2) for a percentage in whole percent, ties to even
percent_of(amount, perc) ==
    LET q == (amount \div 1000) * perc + ((amount % 1000) * perc) \div 1000
        r == ((amount % 1000) * perc) % 1000
    IN  10 * (IF r < 500 THEN q
              ELSE IF r > 500 THEN q + 1
              ELSE IF q % 2 = 0 THEN q ELSE q + 1)

\* the EMI of lines 243-248, of the default loan
default_emi ==
    calculate_emi(Milli(LOAN_OPTIMIZATION_DEFAULT_LOAN_AMOUNT),
                  LOAN_OPTIMIZATION_DEFAULT_INTEREST_RATE,
                  LOAN_OPTIMIZATION_DEFAULT_LOAN_YEARS * 12)

dynamic_threshold_adjuster(salary, lifestyle) ==
    LET remaining_amount == Max(salary - default_emi, 0)
    IN  [ cat \in DOMAIN LOAN_OPTIMIZATION_BASE_CATEGORIES \ {CatSalary} |->
            Max(0, percent_of(remaining_amount, adjustments(lifestyle)[cat])) ]

\* the sum of a column over the rows of a frame
RECURSIVE column_sum(_, _)
column_sum(df, column) ==
    IF df = <<>> THEN 0 ELSE df[1][column] + column_sum(Tail(df), column)

\* the salary rows of a month (line 347)
is_salary_row(row) ==
    /\ lower_type(row.type) = "received"
    /\ \/ Contains(Lower(row.description), CatSalary)
       \/ Contains(Lower(row.description), TextIncome)

month_salary(group) == column_sum(SelectSeq(group, is_salary_row), "amount")

\* the date of a row as one number, for sorting
date_key(date) == (date.year * 12 + date.month) * 31 + date.day

\* sort_values(by='transaction_date'): the orders of the rows by date; quicksort
\* may leave rows of one date in any order
sort_orders(group) ==
    { p \in Permutations(1..Len(group)) :
        \A i, j \in 1..Len(group) :
            i < j => date_key(group[p[i]].transaction_date)
                       <= date_key(group[p[j]].transaction_date) }

\* the months of a frame, each once, in ascending order as groupby yields them
RECURSIVE ascending(_)
ascending(periods) ==
    IF periods = {} THEN <<>>
    ELSE LET first == CHOOSE p \in periods :
                        \A q \in periods : p[1] * 12 + p[2] <= q[1] * 12 + q[2]
         IN  <<first>> \o ascending(periods \ {first})

months_of(df) == ascending({df[k].month : k \in 1..Len(df)})

\* str(row['category']).strip().lower()
spending_category(category) ==
    IF category = NAN THEN TextNan ELSE Lower(Strip(category))

\* mutant: the cumulative total grows past the threshold
spend_row_uncapped(row, thresholds, category_cumulative) ==
    LET cat == spending_category(row.category)
    IN  IF cat \notin DOMAIN thresholds
        THEN [row |-> row, category_cumulative |-> category_cumulative]
        ELSE IF category_cumulative[cat] + row.amount <= thresholds[cat]
        THEN [ row |-> row,
               category_cumulative |->
                   [category_cumulative EXCEPT ![cat] = @ + row.amount] ]
        ELSE [ row |-> [row EXCEPT !.necessary = FALSE,
                                   !.non_essential_amount =
                                       row.amount - Max(thresholds[cat]
                                                        - category_cumulative[cat], 0)],
               category_cumulative |->
                   [category_cumulative EXCEPT ![cat] = @ + row.amount] ]

\* mutant: a row over the threshold is flagged with its whole amount
spend_row_whole(row, thresholds, category_cumulative) ==
    LET cat == spending_category(row.category)
    IN  IF cat \notin DOMAIN thresholds
        THEN [row |-> row, category_cumulative |-> category_cumulative]
        ELSE IF category_cumulative[cat] + row.amount <= thresholds[cat]
        THEN [ row |-> row,
               category_cumulative |->
                   [category_cumulative EXCEPT ![cat] = @ + row.amount] ]
        ELSE [ row |-> [row EXCEPT !.necessary = FALSE,
                                   !.non_essential_amount = row.amount],
               category_cumulative |->
                   [category_cumulative EXCEPT ![cat] = thresholds[cat]] ]

\* one iteration of the loop of calculate_not_necessary_spending (lines 278-291)
spend_row(row, thresholds, category_cumulative) ==
    LET cat == spending_category(row.category)
    IN  IF cat \notin DOMAIN thresholds
        THEN [row |-> row, category_cumulative |-> category_cumulative]
        ELSE IF category_cumulative[cat] + row.amount <= thresholds[cat]
        THEN [ row |-> row,
               category_cumulative |->
                   [category_cumulative EXCEPT ![cat] = @ + row.amount] ]
        ELSE [ row |-> [row EXCEPT !.necessary = FALSE,
                                   !.non_essential_amount =
                                       row.amount - Max(thresholds[cat]
                                                        - category_cumulative[cat], 0)],
               category_cumulative |->
                   [category_cumulative EXCEPT ![cat] = thresholds[cat]] ]

\* the necessity_flag of a row (lines 354-358); the text categorize_nlp gives
\* a description is left as the call
necessity_flag(row) ==
    IF is_salary_row(row) THEN <<"Necessary - Income">>
    ELSE IF ~row.necessary THEN <<"Not Necessary - Threshold Exceed">>
    ELSE <<"categorize_nlp", row.description>>

ErrorNoData == [error |-> "No transaction data provided for loan optimization."]
ErrorRaised == [error |-> "An error occurred during loan optimization"]

InitPipeline ==
    /\ transactions \in LoanBatches
    /\ pc = [fn |-> LoanPipeline, at |-> "start", i |-> 0]
    /\ locals = <<>>
    /\ result = NotReturned
    /\ InitTax

\* lines 105-122: the frame is built, or the pipeline returns an error
BuildFrame ==
    /\ pc.fn = LoanPipeline /\ pc.at = "start"
    /\ IF transactions = <<>>
       THEN /\ result' = Returning(ErrorNoData)
            /\ pc' = [pc EXCEPT !.at = "done"]
            /\ UNCHANGED locals
       ELSE IF \E k \in 1..Len(transactions) : float_raises(transactions[k])
       THEN /\ result' = Returning(ErrorRaised)
            /\ pc' = [pc EXCEPT !.at = "done"]
            /\ UNCHANGED locals
       ELSE /\ locals' = [df |-> [k \in 1..Len(transactions) |-> frame_row(transactions[k])]]
            /\ pc' = [pc EXCEPT !.at = "core"]
            /\ UNCHANGED result
    /\ UNCHANGED <<transactions, reports, response>>

\* lines 125 and 334-340: the core parses the dates, drops the rows without
\* one, normalises the categories and starts the baseline schedule
StartCore ==
    /\ pc.fn = LoanPipeline /\ pc.at = "core"
    /\ IF str_raises(locals.df)
       THEN /\ result' = Returning(ErrorRaised)
            /\ pc' = [pc EXCEPT !.at = "done"]
            /\ UNCHANGED locals
       ELSE /\ locals' =
                schedule_locals(DefaultLoan.loan_amount, DefaultLoan.interest_rate,
                                DefaultLoan.years, 0)
                @@ [ df |-> core_frame(locals.df),
                     lifestyle |-> infer_lifestyle(core_frame(locals.df)),
                     normal_schedule |-> <<>>, monthly_emi |-> 0,
                     periods |-> <<>>, group |-> <<>>, salary |-> 0, remaining |-> 0,
                     thresholds |-> <<>>, category_cumulative |-> <<>>,
                     final_results |-> <<>>, monthly_summary |-> <<>> ]
            /\ pc' = [fn |-> RunLoan, at |-> "normal_schedule", i |-> 0]
            /\ UNCHANGED result
    /\ UNCHANGED <<transactions, reports, response>>

\* lines 340-346: the baseline schedule is returned, monthly_emi is read off its
\* first row and the months of the frame are taken up
StartMonths ==
    /\ pc.fn = RunLoan /\ pc.at = "normal_schedule"
    /\ ~schedule_continues(locals)
    /\ locals' = [ locals EXCEPT
                     !.normal_schedule = locals.schedule,
                     !.monthly_emi = IF locals.schedule = <<>> THEN 0
                                     ELSE Round2(locals.schedule[1].EMI),
                     !.periods = months_of(locals.df) ]
    /\ pc' = [pc EXCEPT !.at = "months", !.i = 0]
    /\ UNCHANGED <<transactions, result, reports, response>>

\* lines 346-352 and 274-277: the salary and the thresholds of the next month,
\* and its rows sorted by date
StartGroup ==
    /\ pc.fn = RunLoan /\ pc.at = "months"
    /\ locals.periods # <<>>
    /\ LET group == SelectSeq(locals.df, LAMBDA row : row.month = Head(locals.periods))
           salary == month_salary(group)
           remaining == Max(salary - locals.monthly_emi, 0)
           thresholds == dynamic_threshold_adjuster(remaining, locals.lifestyle)
       IN  \E p \in sort_orders(group) :
              locals' = [ locals EXCEPT
                            !.group = [ k \in 1..Len(group) |->
                                          group[p[k]] @@ [ necessary |-> TRUE,
                                                           non_essential_amount |-> 0 ] ],
                            !.salary = salary,
                            !.remaining = remaining,
                            !.thresholds = thresholds,
                            !.category_cumulative = [cat \in DOMAIN thresholds |-> 0] ]
    /\ pc' = [pc EXCEPT !.at = "spending", !.i = 1]
    /\ UNCHANGED <<transactions, result, reports, response>>

\* lines 278-291: one row of the month
SpendingRow ==
    /\ pc.fn = RunLoan /\ pc.at = "spending"
    /\ pc.i <= Len(locals.group)
    /\ LET after == spend_row(locals.group[pc.i], locals.thresholds,
                              locals.category_cumulative)
       IN  locals' = [ locals EXCEPT !.group[pc.i] = after.row,
                                     !.category_cumulative = after.category_cumulative ]
    /\ pc' = [pc EXCEPT !.i = @ + 1]
    /\ UNCHANGED <<transactions, result, reports, response>>

\* lines 292 and 354-372: the month is flagged, summed up and kept
FinishGroup ==
    /\ pc.fn = RunLoan /\ pc.at = "spending"
    /\ pc.i > Len(locals.group)
    /\ LET unnecessary_spending == column_sum(locals.group, "non_essential_amount")
       IN  locals' = [ locals EXCEPT
                         !.final_results =
                             @ \o [ k \in 1..Len(locals.group) |->
                                      locals.group[k]
                                      @@ [necessity_flag |-> necessity_flag(locals.group[k])] ],
                         !.monthly_summary =
                             Append(@, [ Month |-> Head(locals.periods),
                                         Salary |-> Round2(locals.salary),
                                         Loan_EMI |-> locals.monthly_emi,
                                         Remaining_Salary |-> locals.remaining,
                                         Unnecessary_Spending |-> unnecessary_spending,
                                         HighSpending |->
                                             /\ locals.salary > 0
                                             /\ unnecessary_spending * 20 > locals.salary * 3 ]),
                         !.periods = Tail(@),
                         !.group = <<>> ]
    /\ pc' = [pc EXCEPT !.at = "months", !.i = 0]
    /\ UNCHANGED <<transactions, result, reports, response>>

\* lines 374-382: the non-essential amounts are added up and the optimized
\* schedule is started with their total
StartOptimizedSchedule ==
    /\ pc.fn = RunLoan /\ pc.at = "months"
    /\ locals.periods = <<>>
    /\ locals' = schedule_locals(locals.loan_amount, locals.interest_rate,
                                 locals.n_months \div 12,
                                 column_sum(locals.final_results, "non_essential_amount"))
                 @@ locals
    /\ pc' = [pc EXCEPT !.at = "optimized_schedule", !.i = 0]
    /\ UNCHANGED <<transactions, result, reports, response>>

\* lines 384-393 and 126-182: the results are returned and formatted
ReturnResults ==
    /\ pc.fn = RunLoan /\ pc.at = "optimized_schedule"
    /\ ~schedule_continues(locals)
    /\ result' = Returning([ lifestyle |-> locals.lifestyle,
                             monthly_emi |-> locals.monthly_emi,
                             categorized_transactions |-> locals.final_results,
                             monthly_summary |-> locals.monthly_summary,
                             total_extra_payment |-> locals.extra_annual_payment,
                             normal_schedule |-> locals.normal_schedule,
                             optimized_schedule |-> locals.schedule,
                             formatted_output |-> TRUE ])
    /\ pc' = [fn |-> LoanPipeline, at |-> "done", i |-> 0]
    /\ UNCHANGED <<transactions, locals, reports, response>>

NextPipeline ==
    \/ BuildFrame \/ StartCore \/ ScheduleMonth \/ StartMonths \/ StartGroup
    \/ SpendingRow \/ FinishGroup \/ StartOptimizedSchedule \/ ReturnResults
SpecPipeline == InitPipeline /\ [][NextPipeline]_vars

(***************************************************************************)
(* Claims about the tax engine                                             *)
(***************************************************************************)

ModeA == "calculate_full_year_tax_optimized"
ModeB == "generate_detailed_tax_report"

\* the stored summary of the user of the last Mode A computation
StoredSummary == reports[file_path(response.user_id)].content

\* C1: in Mode B the rebate is min(60000, tax_before_rebate) whenever
\* total_taxable_income <= 1,200,000 (the limit included) and 0 above it.
C1_RebateBoundary ==
    response.op = ModeB =>
        LET c == response.tax_calc
        IN  /\ c.total_taxable_income <= Deci(1200000)
                => c.tax_rebate = Min(TaxU(60000), c.tax_before_rebate)
            /\ c.total_taxable_income > Deci(1200000) => c.tax_rebate = 0
            /\ c.total_taxable_income = Deci(1200001) => c.tax_rebate = 0

\* a report for a taxable income of exactly 1,200,000: the whole tax is rebated
C1_Witness ==
    /\ response.op = ModeB
    /\ response.tax_calc.total_taxable_income = Deci(1200000)
    /\ response.tax_calc.tax_before_rebate = TaxU(60000)
    /\ response.tax_calc.tax_rebate = TaxU(60000)

\* C2: tax before rebate is non-decreasing in taxable income: of two successive
\* Mode B reports the one with the smaller taxable income has no larger
\* tax_before_rebate, and of two stored Mode A summaries the one with the smaller
\* taxable income has no larger old-regime tax and no larger new-regime tax.
C2_TaxMonotone ==
    [][ /\ (response.op = ModeB /\ response'.op = ModeB)
            => LET c1 == response.tax_calc
                   c2 == response'.tax_calc
               IN  /\ c1.total_taxable_income < c2.total_taxable_income
                        => c1.tax_before_rebate <= c2.tax_before_rebate
                   /\ c2.total_taxable_income < c1.total_taxable_income
                        => c2.tax_before_rebate <= c1.tax_before_rebate
        /\ \A p, q \in FilePaths :
              (/\ reports'[p].exists /\ reports'[q].exists
               /\ reports'[p].content.taxable_income < reports'[q].content.taxable_income)
              => /\ reports'[p].content.estimated_tax_old_regime
                        <= reports'[q].content.estimated_tax_old_regime
                 /\ reports'[p].content.estimated_tax_new_regime
                        <= reports'[q].content.estimated_tax_new_regime
      ]_vars

\* two stored summaries on either side of the old regime's rebate threshold
C2_Witness ==
    /\ reports[file_path("u1")].exists /\ reports[file_path("u2")].exists
    /\ reports[file_path("u1")].content.taxable_income = 700000
    /\ reports[file_path("u2")].content.taxable_income = 700001
    /\ reports[file_path("u1")].content.estimated_tax_old_regime = 0
    /\ reports[file_path("u2")].content.estimated_tax_old_regime > 0

\* the head-wise rule as the specification states it, in tenths of a rupee
RuleDeduction(head, gross) ==
    CASE head = "salary" -> IF gross <= 75000 THEN 10 * gross ELSE 750000
      [] head = "house_property" -> 3 * gross
      [] OTHER -> 0

RuleTaxable(head, gross) ==
    IF head = "capital_gains" THEN 0
    ELSE Max(0, 10 * gross - RuleDeduction(head, gross))

Positive(head_totals, head) == IF head_totals[head] > 0 THEN head_totals[head] ELSE 0

\* C3: every head with positive gross income gets the head-wise deduction and
\* taxable_income = max(0, gross - deduction), capital_gains has taxable 0, and
\* total_taxable_income is the sum over the other four heads.
C3_HeadWiseRule ==
    response.op = ModeB =>
        LET h == response.head_totals
            c == response.tax_calc
        IN  /\ DOMAIN c.head_wise_calculation = {x \in HeadSet : h[x] > 0}
            /\ \A x \in DOMAIN c.head_wise_calculation :
                  /\ c.head_wise_calculation[x].gross_income = h[x]
                  /\ c.head_wise_calculation[x].deduction_amount = RuleDeduction(x, h[x])
                  /\ c.head_wise_calculation[x].taxable_income = RuleTaxable(x, h[x])
            /\ c.total_taxable_income =
                  RuleTaxable("salary", Positive(h, "salary"))
                  + RuleTaxable("house_property", Positive(h, "house_property"))
                  + RuleTaxable("business_profession", Positive(h, "business_profession"))
                  + RuleTaxable("other_sources", Positive(h, "other_sources"))

\* a report over a salary under the standard deduction, rent and capital gains
C3_Witness ==
    /\ response.op = ModeB
    /\ response.head_totals.salary = 50000
    /\ response.head_totals.house_property = 100000
    /\ response.head_totals.capital_gains = 300000
    /\ response.head_totals.business_profession = 50000
    /\ response.tax_calc.total_taxable_income = Deci(120000)

\* C4: every TaxResult satisfies tax_after_rebate = tax_before_rebate - tax_rebate,
\* cess = 4% of tax_after_rebate (25 times the cess is the tax after rebate),
\* total_tax_liability = tax_after_rebate + cess and 0 <= tax_rebate <= tax_before_rebate.
C4_TaxResultInvariant ==
    response.op = ModeB =>
        LET c == response.tax_calc
        IN  /\ c.tax_after_rebate = c.tax_before_rebate - c.tax_rebate
            /\ 25 * c.health_education_cess = c.tax_after_rebate
            /\ c.total_tax_liability = c.tax_after_rebate + c.health_education_cess
            /\ 0 <= c.tax_rebate
            /\ c.tax_rebate <= c.tax_before_rebate

\* a report whose tax is smaller than the rebate amount and is rebated in full
C4_Witness ==
    /\ response.op = ModeB
    /\ response.tax_calc.tax_before_rebate > 0
    /\ response.tax_calc.tax_before_rebate < TaxU(60000)
    /\ response.tax_calc.tax_rebate = response.tax_calc.tax_before_rebate

\* progressive tax over bands [lo, hi) at pct percent, the last band open
BandTax(t, lo, hi, pct) == Times(Max(0, Min(t, hi) - lo), pct)
TopTax(t, lo, pct) == Times(Max(0, t - lo), pct)

OldRegimeRule(t) ==
    IF t <= 700000 THEN 0
    ELSE BandTax(t, 0, 250000, 0) + BandTax(t, 250000, 500000, 5)
         + BandTax(t, 500000, 1000000, 20) + TopTax(t, 1000000, 30)

NewRegimeRule(t) ==
    BandTax(t, 0, 300000, 0) + BandTax(t, 300000, 600000, 5)
    + BandTax(t, 600000, 900000, 10) + BandTax(t, 900000, 1200000, 15)
    + BandTax(t, 1200000, 1500000, 20) + TopTax(t, 1500000, 30)

\* C5: in Mode A taxable = max(0, total_income - investment deductions - 50000),
\* the old-regime tax is the progressive tax over 0-250k-500k-1M at 0/5/20/30%,
\* forced to 0 when taxable <= 700000, the new-regime tax is the progressive tax
\* over five 300k bands at 0/5/10/15/20% and 30% above 1.5M (book1.py and book.py
\* alike); taxable 1,450,000 gives an old-regime tax of 247,500.
C5_FlatRegimeTax ==
    response.op = ModeA =>
        LET a == response.analysis
            t == StoredSummary.taxable_income
        IN  /\ t = Max(0, a.total_income - SumAmounts(a.investment_entries) - 50000)
            /\ StoredSummary.estimated_tax_old_regime = OldRegimeRule(t)
            /\ StoredSummary.estimated_tax_new_regime = NewRegimeRule(t)
            /\ book_tax_old(t) = OldRegimeRule(t)
            /\ book_tax_new(t) = NewRegimeRule(t)
            /\ t = 1450000 => StoredSummary.estimated_tax_old_regime = 1000 * 247500

\* scenario 2: a total income of 1,500,000 without deductions
C5_Witness ==
    /\ response.op = ModeA
    /\ response.analysis.total_income = 1500000
    /\ StoredSummary.deductions = 0
    /\ StoredSummary.taxable_income = 1450000
    /\ StoredSummary.estimated_tax_old_regime = 1000 * 247500

\* C6: Mode A selects "Old" exactly when the old-regime tax is lower than or equal
\* to the new-regime tax, "New" otherwise, and the final estimated tax is the
\* minimum of the two, the tax of the selected regime.
C6_RegimeSelection ==
    response.op = ModeA =>
        LET old == StoredSummary.estimated_tax_old_regime
            new == StoredSummary.estimated_tax_new_regime
        IN  /\ StoredSummary.selected_regime \in {"Old", "New"}
            /\ StoredSummary.selected_regime = "Old" <=> old <= new
            /\ StoredSummary.final_estimated_tax = Min(old, new)
            /\ StoredSummary.final_estimated_tax =
                  IF StoredSummary.selected_regime = "Old" THEN old ELSE new

\* a tie: both regimes give the same tax and Old is selected
C6_Witness ==
    /\ response.op = ModeA
    /\ StoredSummary.taxable_income > 0
    /\ StoredSummary.estimated_tax_old_regime = StoredSummary.estimated_tax_new_regime
    /\ StoredSummary.selected_regime = "Old"

\* C7: after a Mode A computation and after a Mode B computation for user u, a
\* stored summary ITR_summary_<u> exists.
C7_BothModesPersist ==
    response.op \in {ModeA, ModeB} => reports[file_path(response.user_id)].exists

\* C8: a Mode A computation for user u leaves exactly its own summary in the file
\* of u (nothing of the earlier content), leaves the file as it is when it repeats
\* the computation that wrote it, and changes the file of no other user.
C8_LastWriteWins ==
    [][ response'.op = ModeA =>
          LET u == response'.user_id
              written == [ exists |-> TRUE,
                           content |-> full_year_summary(response'.analysis, u) ]
          IN  /\ reports'[file_path(u)] = written
              /\ \A p \in FilePaths \ {file_path(u)} : reports'[p] = reports[p]
              /\ reports[file_path(u)] = written => reports' = reports
      ]_vars

\* a computation that replaced an earlier summary of its user by a different one
\* while the other user has a summary too
C8_Witness ==
    /\ response.op = ModeA
    /\ response.overwrote
    /\ response.user_id = "u1"
    /\ StoredSummary.gross_income = 1500000
    /\ reports[file_path("u2")].exists
    /\ reports[file_path("u2")].content.gross_income = 750000

(***************************************************************************)
(* Claims about the aggregators                                            *)
(***************************************************************************)

ReturnedBy(fn) == result.returned /\ pc.fn = fn /\ transactions # <<>>

RECURSIVE SumSeq(_)
SumSeq(numbers) ==
    IF numbers = <<>> THEN 0 ELSE Head(numbers) + SumSeq(Tail(numbers))

\* the sum of the amounts of the rows among the first n that satisfy Keep
SumWhere(txns, n, Keep(_)) ==
    SumSeq([i \in 1..n |-> IF Keep(txns[i]) THEN txns[i].amount.value ELSE 0])

\* the category a classified row is resolved to
CategoryOf(txn) ==
    resolve_category(Lower(txn.description), Get(txn, "category", CatOther))

\* C9: for every non-empty batch given to analyze_transactions_comprehensive,
\* the values of category_totals sum to the sum of the amounts of the rows
\* that were classified (amount and description read, category resolved), the
\* keys are the categories of those rows, and the total of each key is the sum
\* of the amounts of the rows resolved to that key: each classified row is
\* counted once, under one category.
C9_CategoryPartition ==
    ReturnedBy(Comprehensive) =>
        LET totals == result.value.category_totals
            n == Len(transactions)
        IN  /\ SumValues(totals, DOMAIN totals) = SumWhere(transactions, n, Readable)
            /\ DOMAIN totals =
                 {CategoryOf(transactions[i]) : i \in {j \in 1..n : Readable(transactions[j])}}
            /\ \A key \in DOMAIN totals :
                 totals[key] =
                    SumWhere(transactions, n,
                             LAMBDA txn : Readable(txn) /\ CategoryOf(txn) = key)

\* two classified rows of one category have come back added under one key
C9_Witness ==
    /\ ReturnedBy(Comprehensive)
    /\ \E i, j \in 1..Len(transactions) :
         /\ i < j
         /\ Readable(transactions[i]) /\ Readable(transactions[j])
         /\ CategoryOf(transactions[i]) = CategoryOf(transactions[j])
         /\ result.value.category_totals[CategoryOf(transactions[i])]
              = transactions[i].amount.value + transactions[j].amount.value

\* the rows whose amount reaches the income/expense split of the aggregator:
\* every row whose amount and description were read, and in
\* analyze_income_by_heads a received row only if it has a created_at
ReachesSplit(fn, txn) ==
    /\ Readable(txn)
    /\ (fn = ByHeads /\ Get(txn, "type", "") = "received") => "created_at" \in DOMAIN txn

\* C10: in the analysis an aggregator returns, total_income is the sum of the
\* amounts of the rows with type received, the total of the expenses is the
\* sum of the amounts of the rows with type sent or expense, rows of any other
\* type (loan_payment among them) add to neither, and net_savings is
\* total_income minus the expenses exactly.
C10_IncomeExpenseSplit ==
    \A fn \in {Comprehensive, ByHeads} :
        ReturnedBy(fn) =>
            LET v == result.value
                n == Len(transactions)
                expense == IF fn = Comprehensive THEN v.total_expense ELSE v.total_expenses
                IsIncome(txn) == ReachesSplit(fn, txn) /\ Get(txn, "type", "") = "received"
                IsExpense(txn) ==
                    ReachesSplit(fn, txn) /\ Get(txn, "type", "") \in {"sent", "expense"}
            IN  /\ v.total_income = SumWhere(transactions, n, IsIncome)
                /\ expense = SumWhere(transactions, n, IsExpense)
                /\ v.net_savings = v.total_income - expense

\* a batch of a loan payment and an expense has come back with the expense
\* alone in the totals
C10_Witness ==
    /\ ReturnedBy(Comprehensive)
    /\ \E i, j \in 1..Len(transactions) :
         /\ Readable(transactions[i]) /\ transactions[i].type = "loan_payment"
         /\ Readable(transactions[j]) /\ Get(transactions[j], "type", "") = "expense"
         /\ result.value.total_expense = transactions[j].amount.value
         /\ result.value.net_savings = 0 - transactions[j].amount.value

\* the totals of an analysis, which do not depend on the order of the rows
Totals(v) ==
    IF v = <<>> THEN <<>>
    ELSE [ category_totals |-> v.category_totals, monthly_totals |-> v.monthly_totals,
           yearly_totals |-> v.yearly_totals, person_totals |-> v.person_totals,
           total_income |-> v.total_income, total_expense |-> v.total_expense,
           net_savings |-> v.net_savings ]

CalledAgain == result.returned /\ "previous" \in DOMAIN result

RECURSIVE after_loop(_, _)
after_loop(txns, n) ==
    IF n = 0 THEN comprehensive_locals
    ELSE process_txn(after_loop(txns, n - 1), txns[n])

\* a row with a non-numeric amount, or without a field the try body subscripts:
\* amount, description, and created_at where a loan payment or an investment
\* reads it
Malformed(txn) ==
    \/ ~Readable(txn)
    \/ /\ "created_at" \notin DOMAIN txn
       /\ \/ Get(txn, "type", "") = "loan_payment"
          \/ ContainsAny(Lower(txn.description), INVESTMENT_KEYWORDS)

\* the rows of txns that are not malformed, in their order
RECURSIVE WellFormed(_)
WellFormed(txns) ==
    IF txns = <<>> THEN <<>>
    ELSE IF Malformed(Head(txns)) THEN WellFormed(Tail(txns))
    ELSE <<Head(txns)>> \o WellFormed(Tail(txns))

\* C12: a malformed row is skipped as a whole: the analysis returned for a
\* batch holds the aggregates (totals, income, expense, reminders and entry
\* lists) of the well-formed rows of the batch alone.
C12_MalformedSkippedWhole ==
    ReturnedBy(Comprehensive) =>
        result.value =
            comprehensive_result(after_loop(WellFormed(transactions),
                                            Len(WellFormed(transactions))))

\* a str that is empty or holds white space only
Blank(str) == \A k \in 1..Len(str) : IsSpace(str[k])

\* the category the resolution rule of the specification gives a row: food,
\* else investment, else the category of the row, "Other" if it has none or a
\* blank one
RuleCategory(txn) ==
    IF ContainsAny(Lower(txn.description), FOOD_KEYWORDS) THEN CatFood
    ELSE IF ContainsAny(Lower(txn.description), INVESTMENT_KEYWORDS) THEN CatInvestment
    ELSE IF "category" \notin DOMAIN txn THEN CatOther
    ELSE IF txn.category # NONE /\ Blank(txn.category) THEN CatOther
    ELSE txn.category

\* C13: every classified row is counted under the category of the resolution
\* rule: food if its description holds a food keyword, else investment if it
\* holds an investment keyword, else its own category, "Other" when that is
\* absent or blank.
C13_CategoryResolution ==
    ReturnedBy(Comprehensive) =>
        LET totals == result.value.category_totals
            n == Len(transactions)
        IN  /\ DOMAIN totals =
                 {RuleCategory(transactions[i]) : i \in {j \in 1..n : Readable(transactions[j])}}
            /\ \A key \in DOMAIN totals :
                 totals[key] =
                    SumWhere(transactions, n,
                             LAMBDA txn : Readable(txn) /\ RuleCategory(txn) = key)

(***************************************************************************)
(* Claims about the classifier                                             *)
(***************************************************************************)

Classified == response.op = "classify_transaction_by_section14"

\* the priority order of the heads as the specification lists it
HeadPriority ==
    <<"salary", "house_property", "business_profession", "capital_gains", "other_sources">>

\* the heads, by their place in the priority order, whose keywords or patterns
\* match the description of the call
MatchingHeads ==
    {i \in 1..Len(HeadPriority) : HeadMatches(Lower(response.description), HeadPriority[i])}

\* C14: classify_transaction_by_section14 returns the first head, in the order
\* salary, house_property, business_profession, capital_gains, other_sources,
\* whose keywords or patterns match the description; a received transaction
\* whose description matches no head is given other_sources.
C14_FirstMatchingHead ==
    Classified =>
        /\ \A i \in MatchingHeads :
              (\A j \in MatchingHeads : i <= j) => response.head = HeadPriority[i]
        /\ (MatchingHeads = {} /\ response.txn_type = "received")
              => response.head = "other_sources"
        /\ response.description = DescHra => response.head = "salary"
        /\ response.description = DescRentBusiness => response.head = "house_property"
        /\ response.description = DescBondInterest => response.head = "capital_gains"
        /\ response.description = DescStockProfit => response.head = "capital_gains"
        /\ (response.description = DescPayBrokenSlip /\ response.txn_type = "received")
              => response.head = "other_sources"

\* a received description that matches two heads has been given the earlier one
C14_Witness ==
    /\ Classified
    /\ response.txn_type = "received"
    /\ response.description = DescRentBusiness
    /\ {2, 3} \subseteq MatchingHeads
    /\ response.head = "house_property"

RuleAvoidable(txn) ==
    /\ ~Malformed(txn)
    /\ CategoryOf(txn) # NONE
    /\ Lower(CategoryOf(txn)) \in
         { <<"e", "n", "t", "e", "r", "t", "a", "i", "n", "m", "e", "n", "t">>,
           <<"s", "h", "o", "p", "p", "i", "n", "g">>, <<"l", "u", "x", "u", "r", "y">>,
           <<"g", "a", "m", "i", "n", "g">>,
           <<"s", "u", "b", "s", "c", "r", "i", "p", "t", "i", "o", "n">> }
    /\ txn.amount.value > 1000

\* the rows of txns that satisfy the rule, in their order
RECURSIVE AvoidableRows(_)
AvoidableRows(txns) ==
    IF txns = <<>> THEN <<>>
    ELSE IF RuleAvoidable(Head(txns)) THEN <<Head(txns)>> \o AvoidableRows(Tail(txns))
    ELSE AvoidableRows(Tail(txns))

\* C16: avoidable_expenses lists exactly the rows whose category is one of
\* entertainment, shopping, luxury, gaming, subscription and whose amount is
\* strictly greater than 1000, each of them once: 1500 in luxury is listed,
\* 900 and 1000 are not.
C16_AvoidableExpenses ==
    ReturnedBy(Comprehensive) =>
        result.value.avoidable_expenses = AvoidableRows(transactions)

\* a luxury row of 1500 has been listed, next to a shopping row of exactly
\* 1000 that has not
C16_Witness ==
    /\ ReturnedBy(Comprehensive)
    /\ transactions = <<TxnMovie, TxnGadget>>
    /\ result.value.avoidable_expenses = <<TxnMovie>>

NameRamesh == <<"R", "a", "m", "e", "s", "h">>

\* C17: a row "paid to Ramesh for dinner" adds its amount to person_totals
\* under the name alone, "Ramesh", and leaves category_totals as they are
\* without person extraction.
C17_PersonNameAlone ==
    ReturnedBy(Comprehensive) =>
        LET n == Len(transactions)
            IsRamesh(txn) == Readable(txn) /\ txn.description = DescRamesh
        IN  (\E i \in 1..n : IsRamesh(transactions[i])) =>
               /\ NameRamesh \in DOMAIN result.value.person_totals
               /\ result.value.person_totals[NameRamesh] =
                     SumWhere(transactions, n, IsRamesh)
               /\ result.value.category_totals[CategoryOf(TxnRamesh)] =
                     SumWhere(transactions, n,
                              LAMBDA txn : Readable(txn)
                                           /\ CategoryOf(txn) = CategoryOf(TxnRamesh))

(***************************************************************************)
(* Claims about the loan engine                                            *)
(***************************************************************************)

LoanReturned == pc.fn = RunLoan /\ pc.at = "done" /\ result.returned

\* the sum of a column over the rows from..to of a schedule, by halves
RECURSIVE ColumnSum(_, _, _, _)
ColumnSum(schedule, column, from, to) ==
    IF from > to THEN 0
    ELSE IF from = to THEN schedule[from][column]
    ELSE ColumnSum(schedule, column, from, (from + to) \div 2)
         + ColumnSum(schedule, column, (from + to) \div 2 + 1, to)

ColumnTotal(schedule, column) == ColumnSum(schedule, column, 1, Len(schedule))

Chained(schedule) ==
    \A i \in 1..(Len(schedule) - 1) :
        /\ schedule[i + 1].BeginningBalance = schedule[i].EndingBalance
        /\ schedule[i + 1].EndingBalance <= schedule[i].EndingBalance

\* C18: in the baseline and in the optimized schedule every row begins with
\* the balance the row before it ended with, and the ending balance never
\* goes up from one row to the next.
C18_ScheduleChained ==
    LoanReturned =>
        /\ Chained(result.value.normal_schedule)
        /\ Chained(result.value.optimized_schedule)

\* C19: the baseline schedule of a loan over n months has at most n rows (60
\* for 1,200,000 at 9% over 5 years), ends with a balance of 0, and its
\* principal components and final balance add up to the loan within 1 rupee.
C19_BaselineRepays ==
    LoanReturned =>
        LET schedule == result.value.normal_schedule
            repaid == ColumnTotal(schedule, "Principal")
                        + schedule[Len(schedule)].EndingBalance
        IN  /\ Len(schedule) \in 1..locals.n_months
            /\ (locals.loan_amount = DefaultLoan.loan_amount
                 /\ locals.interest_rate = DefaultLoan.interest_rate)
                   => Len(schedule) = 60
            /\ schedule[Len(schedule)].EndingBalance = 0
            /\ repaid - locals.loan_amount \in (-Milli(1))..Milli(1)

C19_Witness ==
    /\ LoanReturned
    /\ locals.loan_amount = DefaultLoan.loan_amount
    /\ locals.interest_rate = DefaultLoan.interest_rate
    /\ Len(result.value.normal_schedule) = 60
    /\ result.value.normal_schedule[60].Principal
         = result.value.normal_schedule[60].BeginningBalance
    /\ result.value.normal_schedule[60].Interest > 0
    /\ ColumnTotal(result.value.normal_schedule, "Principal") # locals.loan_amount

\* C20: whatever the total of non-essential spending, the optimized schedule
\* has no more rows and no more interest in total than the baseline one, and
\* with a total of zero it is the baseline schedule.
C20_OptimizedNoWorse ==
    LoanReturned =>
        /\ Len(result.value.optimized_schedule) <= Len(result.value.normal_schedule)
        /\ ColumnTotal(result.value.optimized_schedule, "Interest")
             <= ColumnTotal(result.value.normal_schedule, "Interest")
        /\ result.value.total_extra_payment = 0
             => result.value.optimized_schedule = result.value.normal_schedule

C20_Witness ==
    /\ LoanReturned
    /\ locals.loan_amount = DefaultLoan.loan_amount
    /\ locals.interest_rate = DefaultLoan.interest_rate
    /\ result.value.total_extra_payment = Milli(50000)
    /\ Len(result.value.normal_schedule) = 60
    /\ Len(result.value.optimized_schedule) = 50
    /\ ColumnTotal(result.value.optimized_schedule, "Interest")
         < ColumnTotal(result.value.normal_schedule, "Interest")

\* rows of the optimized schedule have been generated
OptimizedRows ==
    /\ pc.fn = RunLoan /\ pc.at = "optimized_schedule"
    /\ locals.schedule # <<>>

\* what was taken off the balance after the last row of the schedule
LumpPaid == locals.schedule[Len(locals.schedule)].EndingBalance - Round2(locals.balance)

\* C25: in the optimized schedule a lump payment is taken off the balance only
\* when a whole number of 12-month cycles has been paid (the first after 12
\* rows, the next ones 12 rows apart); it is min(balance, total non-essential
\* amount), and the balance is never negative
C25_LumpEveryTwelveRows ==
    OptimizedRows =>
        /\ locals.balance >= 0
        /\ LumpPaid # 0 =>
              /\ locals.months_processed >= 12
              /\ locals.months_processed % 12 = 0
              /\ LumpPaid = Min(locals.schedule[Len(locals.schedule)].EndingBalance,
                                locals.extra_annual_payment)

(***************************************************************************)
(* Claims about the loan pipeline                                          *)
(***************************************************************************)

PipelineReturned == pc.fn = LoanPipeline /\ pc.at = "done" /\ result.returned

IsError(value) == "error" \in DOMAIN value

DateLeft(txn) == Get(txn, "created_at", NoDate).iso

\* C21: when no transaction has a date that parses, the pipeline returns a
\* result with an 'error' entry, not a normal analysis.
C21_NoDatedRowIsError ==
    (PipelineReturned /\ \A k \in 1..Len(transactions) : ~DateLeft(transactions[k]))
        => IsError(result.value)

MalformedRow(txn) == float_raises(txn) \/ Get(txn, "category", CatOther) = NUMBER

RowsKept(txns) == SelectSeq(txns, LAMBDA txn : ~MalformedRow(txn) /\ DateLeft(txn))

\* C22: a row with a malformed amount or category is skipped and the other
\* rows of the batch are processed into a normal result.
C22_MalformedRowSkipped ==
    (PipelineReturned /\ \E k \in 1..Len(transactions) : ~MalformedRow(transactions[k]))
        => /\ ~IsError(result.value)
           /\ Len(result.value.categorized_transactions) = Len(RowsKept(transactions))


\* the month's group has its thresholds and its rows are being walked
GroupStarted == pc.fn = RunLoan /\ pc.at = "spending"

\* the rows of the month that is being walked, as the frame holds them
MonthRows == SelectSeq(locals.df, LAMBDA row : row.month = Head(locals.periods))

\* C24: in every month the threshold of each category is round(remaining x
\* adjusted percentage, 2) with remaining = max(salary - EMI, 0), the salary
\* being the month's received rows whose description holds 'salary' or
\* 'income'; no threshold is negative and the salary category has none
C24_ThresholdOfRemaining ==
    GroupStarted =>
        LET remaining == Max(month_salary(MonthRows) - locals.monthly_emi, 0)
        IN  /\ CatSalary \notin DOMAIN locals.thresholds
            /\ \A cat \in DOMAIN locals.thresholds :
                  /\ locals.thresholds[cat] >= 0
                  /\ locals.thresholds[cat] =
                        percent_of(remaining, adjustments(locals.lifestyle)[cat])

\* the row the loop of calculate_not_necessary_spending is at
AtRow == GroupStarted /\ pc.i <= Len(locals.group)

\* the loop has a category with a threshold before it
RowHasThreshold ==
    AtRow /\ spending_category(locals.group[pc.i].category) \in DOMAIN locals.thresholds

\* the rows of the month are walked in the order of their dates
Chronological ==
    \A i, j \in 1..Len(locals.group) :
        i < j => date_key(locals.group[i].transaction_date)
                   <= date_key(locals.group[j].transaction_date)

\* what the step at a row of a category with a threshold has to do
SpendingStep ==
    LET row == locals.group[pc.i]
        cat == spending_category(row.category)
        before == locals.category_cumulative[cat]
        threshold == locals.thresholds[cat]
        after == locals'.group[pc.i]
    IN  IF before + row.amount <= threshold
        THEN /\ after.necessary /\ after.non_essential_amount = 0
             /\ locals'.category_cumulative[cat] = before + row.amount
        ELSE /\ ~after.necessary
             /\ after.non_essential_amount = row.amount - (threshold - before)
             /\ locals'.category_cumulative[cat] = threshold

\* C26: the rows of a month are processed in chronological order and the
\* cumulative total of a category never exceeds its threshold: a row that
\* keeps the total at or under the threshold stays necessary with a
\* non-essential amount of 0; a row that would exceed it is flagged with
\* amount - (threshold - cumulative total before it), and the cumulative
\* total is set to the threshold
C26_CumulativeCapped ==
    /\ [](GroupStarted =>
            /\ Chronological
            /\ \A cat \in DOMAIN locals.thresholds :
                  locals.category_cumulative[cat] <= locals.thresholds[cat])
    /\ [][(RowHasThreshold /\ pc'.i = pc.i + 1) => SpendingStep]_vars

\* a row is flagged with the part of its amount that is over the threshold
C26_Witness ==
    /\ GroupStarted
    /\ \E k \in 1..Len(locals.group) :
          /\ k < pc.i
          /\ ~locals.group[k].necessary
          /\ locals.group[k].non_essential_amount > 0
          /\ locals.group[k].non_essential_amount < locals.group[k].amount
          /\ locals.category_cumulative[spending_category(locals.group[k].category)]
               = locals.thresholds[spending_category(locals.group[k].category)]

\* calculate_not_necessary_spending has walked every row of the month
MonthDone == GroupStarted /\ pc.i > Len(locals.group)

\* the rows of the month whose category is cat
CategoryRows(cat) ==
    SelectSeq(locals.group, LAMBDA row : spending_category(row.category) = cat)

\* C28: when a month has been processed, the non-essential amounts of a
\* category with a threshold add up to max(0, total of the category -
\* threshold), in whatever order the rows came; a row of a category without
\* a threshold has a non-essential amount of 0 and stays necessary
C28_ExcessOverThreshold ==
    MonthDone =>
        /\ \A cat \in DOMAIN locals.thresholds :
              column_sum(CategoryRows(cat), "non_essential_amount")
                = Max(0, column_sum(CategoryRows(cat), "amount") - locals.thresholds[cat])
        /\ \A k \in 1..Len(locals.group) :
              spending_category(locals.group[k].category) \notin DOMAIN locals.thresholds
                => /\ locals.group[k].necessary
                   /\ locals.group[k].non_essential_amount = 0

\* a month with several rows of one category that go over a positive
\* threshold together, next to a row of a category without a threshold
C28_Witness ==
    /\ MonthDone
    /\ \E cat \in DOMAIN locals.thresholds :
          /\ locals.thresholds[cat] > 0
          /\ Len(CategoryRows(cat)) >= 3
          /\ column_sum(CategoryRows(cat), "amount") > locals.thresholds[cat]
          /\ \E k \in 1..Len(CategoryRows(cat)) :
                CategoryRows(cat)[k].amount <= locals.thresholds[cat]
    /\ \E k \in 1..Len(locals.group) :
          /\ spending_category(locals.group[k].category) \notin DOMAIN locals.thresholds
          /\ locals.group[k].amount > 0

(***************************************************************************)
(* The emergency detector: detect_emergency_situation (emergency.py)       *)
(***************************************************************************)

EMERGENCY_KEYWORDS ==
    <<
      [ emergency_type |-> "lost_card",
        keywords |-> <<
          << "l", "o", "s", "t", " ", "m", "y", " ", "c", "a", "r", "d" >>,
          << "l", "o", "s", "t", " ", "c", "r", "e", "d", "i", "t", " ", "c", "a", "r",
             "d" >>,
          << "l", "o", "s", "t", " ", "d", "e", "b", "i", "t", " ", "c", "a", "r",
             "d" >>,
          << "c", "a", "r", "d", " ", "i", "s", " ", "l", "o", "s", "t" >>,
          << "c", "a", "n", "n", "o", "t", " ", "f", "i", "n", "d", " ", "m", "y", " ",
             "c", "a", "r", "d" >>,
          << "m", "i", "s", "p", "l", "a", "c", "e", "d", " ", "m", "y", " ", "c", "a",
             "r", "d" >>,
          << "c", "a", "r", "d", " ", "m", "i", "s", "s", "i", "n", "g" >>,
          << "l", "o", "s", "t", " ", "m", "y", " ", "a", "t", "m", " ", "c", "a", "r",
             "d" >> >> ],
      [ emergency_type |-> "stolen_card",
        keywords |-> <<
          << "c", "a", "r", "d", " ", "s", "t", "o", "l", "e", "n" >>,
          << "s", "o", "m", "e", "o", "n", "e", " ", "s", "t", "o", "l", "e", " ", "m",
             "y", " ", "c", "a", "r", "d" >>,
          << "c", "a", "r", "d", " ", "t", "h", "e", "f", "t" >>,
          << "s", "t", "o", "l", "e", "n", " ", "c", "r", "e", "d", "i", "t", " ", "c",
             "a", "r", "d" >>,
          << "s", "t", "o", "l", "e", "n", " ", "d", "e", "b", "i", "t", " ", "c", "a",
             "r", "d" >>,
          << "m", "y", " ", "c", "a", "r", "d", " ", "w", "a", "s", " ", "s", "t", "o",
             "l", "e", "n" >>,
          << "c", "a", "r", "d", " ", "g", "o", "t", " ", "s", "t", "o", "l", "e",
             "n" >> >> ],
      [ emergency_type |-> "fraud",
        keywords |-> <<
          << "f", "r", "a", "u", "d" >>,
          << "f", "r", "a", "u", "d", "u", "l", "e", "n", "t", " ", "t", "r", "a", "n",
             "s", "a", "c", "t", "i", "o", "n" >>,
          << "u", "n", "a", "u", "t", "h", "o", "r", "i", "z", "e", "d", " ", "t", "r",
             "a", "n", "s", "a", "c", "t", "i", "o", "n" >>,
          << "s", "o", "m", "e", "o", "n", "e", " ", "u", "s", "e", "d", " ", "m", "y",
             " ", "c", "a", "r", "d" >>,
          << "f", "a", "k", "e", " ", "t", "r", "a", "n", "s", "a", "c", "t", "i", "o",
             "n" >>,
          << "s", "c", "a", "m" >>,
          << "c", "h", "e", "a", "t", "e", "d" >>,
          << "u", "n", "a", "u", "t", "h", "o", "r", "i", "z", "e", "d", " ", "p", "a",
             "y", "m", "e", "n", "t" >>,
          << "m", "o", "n", "e", "y", " ", "d", "e", "d", "u", "c", "t", "e", "d", " ",
             "w", "i", "t", "h", "o", "u", "t", " ", "p", "e", "r", "m", "i", "s", "s",
             "i", "o", "n" >> >> ],
      [ emergency_type |-> "account_locked",
        keywords |-> <<
          << "a", "c", "c", "o", "u", "n", "t", " ", "l", "o", "c", "k", "e", "d" >>,
          << "c", "a", "n", "n", "o", "t", " ", "a", "c", "c", "e", "s", "s", " ", "a",
             "c", "c", "o", "u", "n", "t" >>,
          << "b", "l", "o", "c", "k", "e", "d", " ", "a", "c", "c", "o", "u", "n",
             "t" >>,
          << "a", "c", "c", "o", "u", "n", "t", " ", "s", "u", "s", "p", "e", "n", "d",
             "e", "d" >>,
          << "l", "o", "g", "i", "n", " ", "b", "l", "o", "c", "k", "e", "d" >>,
          << "a", "c", "c", "o", "u", "n", "t", " ", "f", "r", "o", "z", "e", "n" >> >> ],
      [ emergency_type |-> "suspicious_activity",
        keywords |-> <<
          << "s", "u", "s", "p", "i", "c", "i", "o", "u", "s", " ", "t", "r", "a", "n",
             "s", "a", "c", "t", "i", "o", "n" >>,
          << "w", "e", "i", "r", "d", " ", "t", "r", "a", "n", "s", "a", "c", "t", "i",
             "o", "n" >>,
          << "u", "n", "k", "n", "o", "w", "n", " ", "t", "r", "a", "n", "s", "a", "c",
             "t", "i", "o", "n" >>,
          << "s", "t", "r", "a", "n", "g", "e", " ", "p", "a", "y", "m", "e", "n",
             "t" >>,
          << "u", "n", "f", "a", "m", "i", "l", "i", "a", "r", " ", "c", "h", "a", "r",
             "g", "e" >>,
          << "u", "n", "r", "e", "c", "o", "g", "n", "i", "z", "e", "d", " ", "t", "r",
             "a", "n", "s", "a", "c", "t", "i", "o", "n" >> >> ],
      [ emergency_type |-> "phishing_attack",
        keywords |-> <<
          << "p", "h", "i", "s", "h", "i", "n", "g" >>,
          << "f", "a", "k", "e", " ", "e", "m", "a", "i", "l" >>,
          << "s", "u", "s", "p", "i", "c", "i", "o", "u", "s", " ", "e", "m", "a", "i",
             "l" >>,
          << "f", "a", "k", "e", " ", "s", "m", "s" >>,
          << "s", "o", "m", "e", "o", "n", "e", " ", "a", "s", "k", "i", "n", "g", " ",
             "f", "o", "r", " ", "o", "t", "p" >>,
          << "s", "u", "s", "p", "i", "c", "i", "o", "u", "s", " ", "c", "a", "l",
             "l" >>,
          << "f", "a", "k", "e", " ", "b", "a", "n", "k", " ", "c", "a", "l", "l" >> >> ]
    >>

\* the general indicators of an emergency
emergency_indicators ==
    <<
      << "e", "m", "e", "r", "g", "e", "n", "c", "y" >>,
      << "u", "r", "g", "e", "n", "t" >>,
      << "h", "e", "l", "p" >>,
      << "i", "m", "m", "e", "d", "i", "a", "t", "e", "l", "y" >>,
      << "a", "s", "a", "p" >>,
      << "q", "u", "i", "c", "k" >>
    >>

\* the words of a financial context
financial_context ==
    <<
      << "c", "a", "r", "d" >>,
      << "c", "r", "e", "d", "i", "t" >>,
      << "d", "e", "b", "i", "t" >>,
      << "p", "a", "y", "m", "e", "n", "t" >>,
      << "t", "r", "a", "n", "s", "a", "c", "t", "i", "o", "n" >>,
      << "a", "c", "c", "o", "u", "n", "t" >>,
      << "m", "o", "n", "e", "y" >>,
      << "b", "a", "n", "k" >>
    >>

\* test_cases of test_emergency_detection
test_cases ==
    <<
      [ test_input |->
          << "I", " ", "l", "o", "s", "t", " ", "m", "y", " ", "c", "r", "e", "d", "i",
             "t", " ", "c", "a", "r", "d" >>,
        expected_emergency |-> TRUE ],
      [ test_input |->
          << "M", "y", " ", "d", "e", "b", "i", "t", " ", "c", "a", "r", "d", " ", "w",
             "a", "s", " ", "s", "t", "o", "l", "e", "n" >>,
        expected_emergency |-> TRUE ],
      [ test_input |->
          << "T", "h", "e", "r", "e", "'", "s", " ", "a", " ", "f", "r", "a", "u", "d",
             "u", "l", "e", "n", "t", " ", "t", "r", "a", "n", "s", "a", "c", "t", "i",
             "o", "n", " ", "o", "n", " ", "m", "y", " ", "a", "c", "c", "o", "u", "n",
             "t" >>,
        expected_emergency |-> TRUE ],
      [ test_input |->
          << "S", "o", "m", "e", "o", "n", "e", " ", "u", "s", "e", "d", " ", "m", "y",
             " ", "c", "a", "r", "d", " ", "w", "i", "t", "h", "o", "u", "t", " ", "p",
             "e", "r", "m", "i", "s", "s", "i", "o", "n" >>,
        expected_emergency |-> TRUE ],
      [ test_input |->
          << "M", "y", " ", "a", "c", "c", "o", "u", "n", "t", " ", "i", "s", " ", "l",
             "o", "c", "k", "e", "d", " ", "a", "n", "d", " ", "I", " ", "n", "e", "e",
             "d", " ", "h", "e", "l", "p", " ", "u", "r", "g", "e", "n", "t", "l",
             "y" >>,
        expected_emergency |-> TRUE ],
      [ test_input |->
          << "I", " ", "g", "o", "t", " ", "a", " ", "s", "u", "s", "p", "i", "c", "i",
             "o", "u", "s", " ", "e", "m", "a", "i", "l", " ", "a", "s", "k", "i", "n",
             "g", " ", "f", "o", "r", " ", "m", "y", " ", "P", "I", "N" >>,
        expected_emergency |-> TRUE ],
      [ test_input |->
          << "W", "h", "a", "t", "'", "s", " ", "m", "y", " ", "c", "u", "r", "r", "e",
             "n", "t", " ", "b", "a", "l", "a", "n", "c", "e", "?" >>,
        expected_emergency |-> FALSE ],
      [ test_input |->
          << "S", "h", "o", "w", " ", "m", "e", " ", "m", "y", " ", "t", "r", "a", "n",
             "s", "a", "c", "t", "i", "o", "n", " ", "h", "i", "s", "t", "o", "r",
             "y" >>,
        expected_emergency |-> FALSE ],
      [ test_input |->
          << "I", " ", "n", "e", "e", "d", " ", "u", "r", "g", "e", "n", "t", " ", "h",
             "e", "l", "p", " ", "w", "i", "t", "h", " ", "m", "y", " ", "c", "a", "r",
             "d" >>,
        expected_emergency |-> TRUE ],
      [ test_input |->
          << "H", "o", "w", " ", "d", "o", " ", "I", " ", "t", "r", "a", "n", "s", "f",
             "e", "r", " ", "m", "o", "n", "e", "y", "?" >>,
        expected_emergency |-> FALSE ]
    >>

\* more reports of a lost or stolen card, with and without a word between
CardReports ==
    <<
      [ test_input |->
          << "I", " ", "l", "o", "s", "t", " ", "m", "y", " ", "c", "a", "r", "d" >>,
        expected_emergency |-> TRUE ],
      [ test_input |->
          << "I", " ", "l", "o", "s", "t", " ", "m", "y", " ", "d", "e", "b", "i", "t",
             " ", "c", "a", "r", "d" >>,
        expected_emergency |-> TRUE ],
      [ test_input |->
          << "I", " ", "L", "O", "S", "T", " ", "M", "Y", " ", "A", "T", "M", " ", "C",
             "A", "R", "D" >>,
        expected_emergency |-> TRUE ],
      [ test_input |->
          << "M", "y", " ", "c", "a", "r", "d", " ", "w", "a", "s", " ", "s", "t", "o",
             "l", "e", "n" >>,
        expected_emergency |-> TRUE ],
      [ test_input |->
          << "M", "y", " ", "c", "r", "e", "d", "i", "t", " ", "c", "a", "r", "d", " ",
             "g", "o", "t", " ", "s", "t", "o", "l", "e", "n" >>,
        expected_emergency |-> TRUE ],
      [ test_input |->
          << "m", "y", " ", "c", "a", "r", "d", " ", "g", "o", "t", " ", "s", "t", "o",
             "l", "e", "n" >>,
        expected_emergency |-> TRUE ]
    >>

Openers ==
    {
      << >>,
      << "H", "e", "l", "l", "o", ",", " " >>,
      << " ", " ", "H", "i", ".", " " >>
    }

Closers ==
    {
      << >>,
      << " ", "T", "h", "a", "n", "k", "s" >>,
      << " ", " " >>
    }

get_emergency_severity(emergency_type) ==
    CASE emergency_type \in {"fraud", "stolen_card", "phishing_attack"} -> "critical"
      [] emergency_type \in {"lost_card", "suspicious_activity"} -> "high"
      [] emergency_type \in {"account_locked", "general_financial_emergency"} -> "medium"
      [] OTHER -> "low"

\* the keywords in the order the two loops visit them, each with its type
keyword_order ==
    LET RECURSIVE flat(_)
        flat(k) ==
            IF k > Len(EMERGENCY_KEYWORDS) THEN <<>>
            ELSE [ j \in 1..Len(EMERGENCY_KEYWORDS[k].keywords) |->
                     [ emergency_type |-> EMERGENCY_KEYWORDS[k].emergency_type,
                       keyword |-> EMERGENCY_KEYWORDS[k].keywords[j] ] ] \o flat(k + 1)
    IN  flat(1)

\* any(word in user_input_lower for word in words)
any_in(words, user_input_lower) ==
    \E k \in 1..Len(words) : Contains(user_input_lower, words[k])

has_financial_context(user_input_lower) == any_in(financial_context, user_input_lower)

detect_emergency_situation(user_input) ==
    LET user_input_lower == Strip(Lower(user_input))
        matches == {k \in 1..Len(keyword_order) :
                        Contains(user_input_lower, keyword_order[k].keyword)}
        first == CHOOSE k \in matches : \A j \in matches : k <= j
        has_emergency == any_in(emergency_indicators, user_input_lower)
    IN  IF matches # {}
        THEN [ is_emergency |-> TRUE,
               emergency_type |-> keyword_order[first].emergency_type,
               matched_keyword |-> keyword_order[first].keyword,
               confidence |-> "high",
               severity |-> get_emergency_severity(keyword_order[first].emergency_type) ]
        ELSE IF has_emergency /\ has_financial_context(user_input_lower)
        THEN [ is_emergency |-> TRUE,
               emergency_type |-> "general_financial_emergency",
               matched_keyword |-> "general emergency with financial context",
               confidence |-> "medium",
               severity |-> "medium" ]
        ELSE [ is_emergency |-> FALSE,
               emergency_type |-> NONE,
               matched_keyword |-> NONE,
               confidence |-> "none",
               severity |-> "none" ]

\* the messages the detector is called with: each case between a greeting and
\* an ending that hold no keyword
EmergencyCases ==
    { test_cases[k] : k \in 1..Len(test_cases) } \cup
    { CardReports[k] : k \in 1..Len(CardReports) }

DetectEmergency == "detect_emergency_situation"

DetectionOf ==
    [ case \in EmergencyCases |->
        [ opener \in Openers |->
            [ closer \in Closers |->
                detect_emergency_situation(opener \o case.test_input \o closer) ] ] ]

\* one call of detect_emergency_situation
Detect ==
    \E case \in EmergencyCases, opener \in Openers, closer \in Closers :
        /\ response' = [ op |-> DetectEmergency,
                         user_input |-> opener \o case.test_input \o closer,
                         detection |-> DetectionOf[case][opener][closer] ]
        /\ UNCHANGED <<reports, transactions, pc, locals, result>>

NextEmergency == Detect
SpecEmergency == Init /\ [][NextEmergency]_vars

(***************************************************************************)
(* Claims about the emergency detector                                     *)
(***************************************************************************)

Detected == "op" \in DOMAIN response /\ response.op = DetectEmergency

\* what the authors' test expects of a message made from one of the cases
ExpectedEmergency(user_input) ==
    \E case \in EmergencyCases, opener \in Openers, closer \in Closers :
        /\ user_input = opener \o case.test_input \o closer
        /\ case.expected_emergency

\* C23: every message of the kinds the authors' test exercises is classified
\* as the test expects: a lost or stolen card (also with a word between), a
\* fraudulent or unauthorized use, a locked account with an urgent request,
\* a suspicious email and an urgent request about a card are emergencies;
\* a balance, history or transfer question is not
C23_TestCasesPass ==
    Detected => response.detection.is_emergency = ExpectedEmergency(response.user_input)

(***************************************************************************)
(* Further claims about the tax engine                                     *)
(***************************************************************************)

ModeBReturned == "op" \in DOMAIN response /\ response.op = ModeB

\* the lower limit of band i of NEW_REGIME_SLABS, in tenths of a rupee
BandFloor(i) == IF i = 1 THEN 0 ELSE Deci(NEW_REGIME_SLABS[i - 1].limit)

\* the part of an income that lies in band i, in tenths of a rupee
BandPart(income, i) ==
    IF income <= BandFloor(i) THEN 0
    ELSE IF NEW_REGIME_SLABS[i].unbounded \/ income <= Deci(NEW_REGIME_SLABS[i].limit)
    THEN income - BandFloor(i)
    ELSE Deci(NEW_REGIME_SLABS[i].limit) - BandFloor(i)

\* the progressive tax of an income, band by band, in 1/5000 of a rupee
ProgressiveTax(income) ==
    SumSeq([ i \in 1..Len(NEW_REGIME_SLABS) |->
               BandPart(income, i) * NEW_REGIME_SLABS[i].rate * 5 ])

\* C27: the tax before rebate of Mode B is the progressive tax of the taxable
\* income over the 400,000 bands at 0, 5, 10, 15, 20, 25 and 30 percent; the
\* taxable amounts of slab_breakdown add up to the income and its tax amounts
\* to tax_before_rebate
C27_SlabTaxProgressive ==
    ModeBReturned =>
        LET c == response.tax_calc
            rows == c.slab_breakdown
        IN  /\ c.total_taxable_income >= 0
            /\ c.tax_before_rebate = ProgressiveTax(c.total_taxable_income)
            /\ SumSeq([k \in 1..Len(rows) |-> rows[k].taxable_amount])
                 = c.total_taxable_income
            /\ SumSeq([k \in 1..Len(rows) |-> rows[k].tax_amount]) = c.tax_before_rebate
            /\ \A k \in 1..Len(rows) :
                  rows[k].taxable_amount = BandPart(c.total_taxable_income, k)

\* an income that reaches into the last band, and one that ends inside a band
C27_Witness ==
    /\ ModeBReturned
    /\ Len(response.tax_calc.slab_breakdown) = Len(NEW_REGIME_SLABS)
    /\ response.tax_calc.total_taxable_income % Deci(400000) # 0
    /\ response.tax_calc.tax_before_rebate > TaxU(300000)

\* C29: Mode A selects "Old" exactly when taxable_income <= 700,000: above it
\* the old-regime tax is strictly greater than the new-regime tax, "New" is
\* selected and the final estimated tax is the new-regime tax; up to it the
\* final estimated tax is 0
C29_OldUpTo700000 ==
    response.op = ModeA =>
        LET s == StoredSummary
        IN  /\ s.selected_regime = "Old" <=> s.taxable_income <= 700000
            /\ s.taxable_income > 700000 =>
                  /\ s.estimated_tax_old_regime > s.estimated_tax_new_regime
                  /\ s.selected_regime = "New"
                  /\ s.final_estimated_tax = s.estimated_tax_new_regime
            /\ s.taxable_income <= 700000 => s.final_estimated_tax = 0

\* the two sides of the limit: one user's summary with a taxable income of
\* 700,000, a new-regime tax above 0 and "Old", the other's one rupee over it
\* with "New"
C29_Witness ==
    /\ response.op = ModeA
    /\ \E u, v \in Users :
          /\ reports[file_path(u)].exists /\ reports[file_path(v)].exists
          /\ reports[file_path(u)].content.taxable_income = 700000
          /\ reports[file_path(u)].content.estimated_tax_new_regime > 0
          /\ reports[file_path(u)].content.selected_regime = "Old"
          /\ reports[file_path(v)].content.taxable_income = 700001
          /\ reports[file_path(v)].content.selected_regime = "New"

(***************************************************************************)
(* The Instagram webhook: receive_message and its threads (instagram.py)   *)
(***************************************************************************)

MaxDeliveries == 2

\* one thread for each delivery of the webhook
Threads == 1..MaxDeliveries

Messaging(sender_id, message_text, message_id) ==
    [ sender |-> sender_id, text |-> message_text, mid |-> message_id ]

\* the messaging items of the deliveries: two messages with an id, one
\* without text, one without an id
Hello == Messaging("s1", "balance?", "m1")
Again == Messaging("s2", "loan?", "m2")
NoText == [ sender |-> "s1", mid |-> "m3" ]
NoMid == [ sender |-> "s1", text |-> "hi" ]

\* the data of a delivery: the messaging items of its entries in the order
\* the two loops visit them
Deliveries ==
    { <<Hello>>, <<Again>>, <<Hello, Again>>, <<NoText, Hello>>, <<NoMid>>, <<>> }

MessageIds == {"m1", "m2", "m3", ""}

\* what requests.post to the model comes to: a reply, a status other than
\* 200, or an exception
ModelReplies == {"response", "Model error", "AI unavailable."}

processed_message_ids == result.processed_message_ids

InitWebhook ==
    /\ pc = [t \in Threads |-> "idle"]
    /\ locals = [t \in Threads |-> <<>>]
    /\ result = [ returned |-> FALSE,
                  processed_message_ids |-> {},
                  asked |-> [mid \in MessageIds |-> 0],
                  answered |-> [mid \in MessageIds |-> 0] ]
    /\ transactions = <<>>
    /\ InitTax

\* POST /webhook: the data is read and a thread is started on process()
receive_message(t) ==
    /\ pc[t] = "idle"
    /\ \E data \in Deliveries : locals' = [locals EXCEPT ![t] = [data |-> data, i |-> 1]]
    /\ pc' = [pc EXCEPT ![t] = "messaging"]
    /\ UNCHANGED <<result, transactions, reports, response>>

\* lines 35-43: the next messaging item is read; the thread returns on an item
\* without sender or text and on an id that is in processed_message_ids
ReadMessaging(t) ==
    /\ pc[t] = "messaging"
    /\ LET data == locals[t].data
           i == locals[t].i
           sender_id == Get(data[i], "sender", "")
           message_text == Get(data[i], "text", "")
           message_id == Get(data[i], "mid", "")
       IN  IF i > Len(data) THEN pc' = [pc EXCEPT ![t] = "done"]
           ELSE IF sender_id = "" \/ message_text = "" THEN pc' = [pc EXCEPT ![t] = "done"]
           ELSE IF message_id \in processed_message_ids
           THEN pc' = [pc EXCEPT ![t] = "done"]
           ELSE pc' = [pc EXCEPT ![t] = "add"]
    /\ UNCHANGED <<locals, result, transactions, reports, response>>

\* line 44: processed_message_ids.add(message_id)
AddMessageId(t) ==
    /\ pc[t] = "add"
    /\ result' = [result EXCEPT !.processed_message_ids =
                                    @ \cup {Get(locals[t].data[locals[t].i], "mid", "")}]
    /\ pc' = [pc EXCEPT ![t] = "ask"]
    /\ UNCHANGED <<locals, transactions, reports, response>>

\* lines 48-60: the text is posted to the model
AskModel(t) ==
    /\ pc[t] = "ask"
    /\ \E model_reply \in ModelReplies :
          locals' = [locals EXCEPT ![t] = [model_reply |-> model_reply] @@ @]
    /\ result' = [result EXCEPT !.asked[Get(locals[t].data[locals[t].i], "mid", "")] = @ + 1]
    /\ pc' = [pc EXCEPT ![t] = "send"]
    /\ UNCHANGED <<transactions, reports, response>>

\* lines 64-77: the reply is posted to Instagram and the loop goes on
SendReply(t) ==
    /\ pc[t] = "send"
    /\ result' = [result EXCEPT
                    !.answered[Get(locals[t].data[locals[t].i], "mid", "")] = @ + 1]
    /\ locals' = [locals EXCEPT ![t] = [data |-> @.data, i |-> @.i + 1]]
    /\ pc' = [pc EXCEPT ![t] = "messaging"]
    /\ UNCHANGED <<transactions, reports, response>>

\* lines 77-80: requests.post raises and process() ends in its except
SendRaises(t) ==
    /\ pc[t] = "send"
    /\ pc' = [pc EXCEPT ![t] = "done"]
    /\ UNCHANGED <<locals, result, transactions, reports, response>>

NextWebhook ==
    \E t \in Threads :
        \/ receive_message(t)
        \/ ReadMessaging(t)
        \/ AddMessageId(t)
        \/ AskModel(t)
        \/ SendReply(t)
        \/ SendRaises(t)

SpecWebhook == InitWebhook /\ [][NextWebhook]_vars

(***************************************************************************)
(* Claims about the Instagram webhook                                      *)
(***************************************************************************)

\* C30: whatever the interleaving of the threads of concurrent deliveries, a
\* message id is forwarded to the model at most once and answered at most
\* once: once it is in processed_message_ids it is not processed again
C30_MessageIdOnce ==
    \A mid \in MessageIds \ {""} :
        /\ result.asked[mid] <= 1
        /\ result.answered[mid] <= 1

====
